---- MODULE Spec2Model ----
(***************************************************************************)
(* Model of local_info_dashboard.py: the weather advisory rule engine      *)
(* (get_innovative_weather_suggestions) and the local-time calculator      *)
(* (get_day_night_and_local_time).                                         *)
(*                                                                         *)
(* Representation.                                                         *)
(*  - A Python str built by the rule engine is the sequence of the string  *)
(*    literals concatenated into it: "" is << >>, `s = lit` is << lit >>,  *)
(*    `s += lit` is Append(s, lit).                                        *)
(*  - A Python dict is the sequence of its items [k, v] in insertion       *)
(*    order; item assignment keeps the position of an existing key and     *)
(*    appends a new one; `d[k] += x` on a missing key raises KeyError.     *)
(*  - The emoji that prefix the dictionary keys are written as words: the  *)
(*    dictionary literal and the rain/snow rules use the key               *)
(*    U+1F436 (dog face) " Pet Pal", the pet-care step uses                *)
(*    U+1F43E (paw prints) " Pet Pal".                                     *)
(*  - The weather description is a sequence of one-character strings, so   *)
(*    str.lower() and the substring test `in` are computed.                *)
(*  - Temperatures are whole degrees Celsius; every threshold of the code  *)
(*    is a whole number, so a fractional temperature behaves as one of     *)
(*    its two whole neighbours.                                            *)
(*  - pressure / visibility are tagged values: a number, or the 'N/A'      *)
(*    string the caller passes for a missing visibility.                   *)
(***************************************************************************)
EXTENDS Integers, Sequences, FiniteSets, TLC

VARIABLES
    advIn,    \* arguments of the get_innovative_weather_suggestions call
    advOut,   \* its outcome, or Pending before the call is made
    timeIn,   \* arguments of the get_day_night_and_local_time call
    timeOut,  \* its outcome, or Pending before the call is made
    newsIn,   \* arguments of the get_news call and the provider's answer to it
    newsOut,  \* its outcome, or Pending before the call is made
    runIn,    \* one script run: session inputs, keys, clock, providers' answers
    pc,       \* position of the script run
    weather_data,   \* the script's variable of that name
    news_articles,  \* the script's variable of that name
    ui,       \* the elements rendered so far, in order
    calls,    \* the get_weather / get_news invocations made so far, in order
    session_state,  \* st.session_state of one browser session
    auto_refresh,   \* state of the auto-refresh checkbox
    cache,    \* the st.cache_data store: per cached function, its live entries
    clock,    \* seconds since the session was opened
    hist,     \* per cached function and arguments: when the provider was last
              \* asked and what came back, since the last cache clear
    run,      \* what the last script run of the session did
    geo_calls \* calls of simulate_geolocation_and_update_state in the session

sessionVars == <<session_state, auto_refresh, cache, clock, hist, run, geo_calls>>

cycleVars == <<runIn, pc, weather_data, news_articles, ui, calls, sessionVars>>

vars == <<advIn, advOut, timeIn, timeOut, newsIn, newsOut,
          runIn, pc, weather_data, news_articles, ui, calls, sessionVars>>

Pending == [status |-> "pending"]

-----------------------------------------------------------------------------
(* Bounds of the input domains.                                            *)

MaxTemp == 32
MaxSkew == 2

Temps == {-30, 4, 5, 9, 10, 14, 15, 24, 25, 28, 29, 30} \cup (31..MaxTemp)

Descriptions ==
    { <<"l","i","g","h","t"," ","r","a","i","n">>,
      <<"d","r","i","z","z","l","e">>,
      <<"R","a","i","n"," ","a","n","d"," ","s","n","o","w">>,
      <<"S","N","O","W">>,
      <<"m","i","s","t">>,
      <<"h","a","z","e">>,
      <<"f","o","g">>,
      <<"c","l","e","a","r"," ","s","k","y">>,
      <<"C","l","e","a","r",","," ","f","e","w"," ","c","l","o","u","d","s">>,
      <<"o","v","e","r","c","a","s","t"," ","c","l","o","u","d","s">>,
      <<"t","h","u","n","d","e","r","s","t","o","r","m">> }

WindSpeeds == {10, 11, 15}

Humidities == {69, 70, 80}

Num(n) == [type |-> "number", val |-> n]

NotAvailable == [type |-> "str", val |-> 0]

Pressures == {NotAvailable} \cup {Num(p) : p \in {995, 1000, 1010, 1020, 1021}}

Visibilities == {NotAvailable} \cup {Num(v) : v \in {3000, 4999, 5000}}

AdviceInputs ==
    [temp : Temps, description : Descriptions, wind_speed : WindSpeeds,
     humidity : Humidities, is_day : BOOLEAN, pressure : Pressures,
     visibility : Visibilities]

-----------------------------------------------------------------------------
(* Python primitives used by the rule engine.                              *)

UpperCase == <<"A","B","C","D","E","F","G","H","I","J","K","L","M",
               "N","O","P","Q","R","S","T","U","V","W","X","Y","Z">>

LowerCase == <<"a","b","c","d","e","f","g","h","i","j","k","l","m",
               "n","o","p","q","r","s","t","u","v","w","x","y","z">>

\* str.lower() on one character
LowerChar(c) ==
    IF \E i \in 1..Len(UpperCase) : UpperCase[i] = c
    THEN LowerCase[CHOOSE i \in 1..Len(UpperCase) : UpperCase[i] = c]
    ELSE c

\* str.lower()
Lower(s) == [i \in 1..Len(s) |-> LowerChar(s[i])]

\* `sub in s` for strings
Contains(s, sub) ==
    \E i \in 1..(Len(s) - Len(sub) + 1) : SubSeq(s, i, i + Len(sub) - 1) = sub

IsNumberUnchecked(x) == TRUE

\* isinstance(x, (int, float))
IsNumber(x) == x.type = "number"

HasKey(d, k) == \E i \in 1..Len(d) : d[i].k = k

IndexOf(d, k) == CHOOSE i \in 1..Len(d) : d[i].k = k

\* d[k]
GetItem(d, k) == d[IndexOf(d, k)].v

\* d[k] = v
SetItem(d, k, v) ==
    IF HasKey(d, k)
    THEN [d EXCEPT ![IndexOf(d, k)].v = v]
    ELSE Append(d, [k |-> k, v |-> v])

\* A frame of the running function: its local dict and the pending exception.
\* suggestions[k] = lit
Assign(f, k, lit) ==
    IF f.err # "none" THEN f
    ELSE [f EXCEPT !.d = SetItem(f.d, k, <<lit>>)]

\* suggestions[k] += lit   (reads suggestions[k] first: KeyError if absent)
AugAssign(f, k, lit) ==
    IF f.err # "none" THEN f
    ELSE IF HasKey(f.d, k)
         THEN [f EXCEPT !.d = SetItem(f.d, k, Append(GetItem(f.d, k), lit))]
         ELSE [f EXCEPT !.err = "KeyError"]

-----------------------------------------------------------------------------
(* Dictionary keys and the string literals the claims speak about.         *)

DressCode == "Dress Code"
ActivityIdea == "Activity Idea"
HealthTip == "Health Tip"
CommuteReady == "Commute Ready"
EnergySavvy == "Energy Savvy"
GreenThumb == "Green Thumb"
PetPalDog == "(dog face) Pet Pal"
PetPalPaw == "(paw prints) Pet Pal"
StayHydrated == "Stay Hydrated"
SunSafety == "Sun Safety"
WindAdvisory == "Wind Advisory"
MoodBoost == "Mood Boost"

Categories ==
    <<DressCode, ActivityIdea, HealthTip, CommuteReady, EnergySavvy,
      GreenThumb, PetPalDog, StayHydrated, SunSafety, WindAdvisory, MoodBoost>>

InitialSuggestionsEmpty == << >>

\* the dict literal of the function: every category bound to ""
InitialSuggestions == [i \in 1..Len(Categories) |-> [k |-> Categories[i], v |-> << >>]]

DressFreezing == "Heavy coat, hat, gloves. Layers are key!"
DressCool == "Light jacket or sweater. Smart to layer."
DressMild == "Comfortable light clothing. Long-sleeves for evenings."
DressWarm == "Shorts and t-shirt. Breathable fabrics."
DressHot == "Lightest clothing. Avoid dark colors."
DressRain == " Umbrella/waterproof jacket needed!"
DressWind == " Windproof layers!"
CommuteRain == "Slippery roads. Drive slow, increase distance."
CommuteWind == "Strong gusts can affect tall vehicles. Watch for debris."
CommuteVisibility == "Reduced visibility. Drive slower and increase following distance."
WindAdvisoryText == "Secure loose outdoor items. Stay cautious near tall structures."
HealthLowPressure == " Low pressure can sometimes cause headaches for sensitive people."
ActivityLowPressure == " You might feel sluggish. Relaxing activities are best."
EnergyHighPressure == " Stable weather. Great for opening windows to air out rooms."
DrinkPlenty == "Drink plenty of water throughout the day!"
SipRegularly == "Keep a water bottle handy and sip regularly."
PetWarmBedding == " Consider warm bedding for outdoor pets."
PetWaterShade == " Ensure pets have plenty of fresh water and shade."
DressSnow == " Snow boots, waterproof gear!"
CommuteSnow == "Icy/snowy roads. Drive with care or use public transport."
CommuteFog == "Low visibility. Use headlights, drive slowly."
ActivityWind == "Avoid windy sports (e.g., kite flying, exposed cycling)."
GreenThumbRain == "Plants love it! Collect rainwater."
MoodRain == "Cozy up with a warm drink and a good book!"
MoodSnow == "Enjoy the winter wonderland from inside!"
MoodFog == "A mysterious, quiet day. Perfect for reflection."
MoodCloud == "A mellow day. Perfect for indoor hobbies or gentle walks."
EnergyCloud == "Good day for natural light, reduce indoor lighting."
SunSafetyText == "Wear sunglasses and a hat. Seek shade between 10 AM - 4 PM."

-----------------------------------------------------------------------------
(* get_innovative_weather_suggestions, one operator per block of rules.    *)

\* if temp < 5 / elif 5 <= temp < 15 / elif 15 <= temp < 25 /
\* elif 25 <= temp < 30 / else
TemperatureRules(f, temp) ==
    IF temp < 5 THEN
        Assign(Assign(Assign(f,
            DressCode, DressFreezing),
            ActivityIdea, "Indoor games, cozy reading, or snowman building (if snow!)."),
            HealthTip, "Beware of ice! Limit exposed skin. Hypothermia risk.")
    ELSE IF 5 <= temp /\ temp < 15 THEN
        Assign(Assign(f,
            DressCode, DressCool),
            ActivityIdea, "Museum visits, coffee shop hopping, or a brisk walk.")
    ELSE IF 15 <= temp /\ temp < 25 THEN
        Assign(Assign(Assign(f,
            DressCode, DressMild),
            ActivityIdea, "Outdoor sports, picnic, or exploring local sights."),
            HealthTip, "Sunscreen is vital if sunny. Drink water!")
    ELSE IF 25 <= temp /\ temp < 30 THEN
        Assign(Assign(Assign(f,
            DressCode, DressWarm),
            ActivityIdea, "Beach day, swimming, or outdoor dining (in shade)."),
            HealthTip, "Hydrate constantly! Watch for heat exhaustion.")
    ELSE
        Assign(Assign(Assign(f,
            DressCode, DressHot),
            ActivityIdea, "Indoor pools, air-conditioned places, or early/late outdoor walks."),
            HealthTip, "Extreme heat! Stay indoors, drink lots of water, check on others.")

KwRain == <<"r","a","i","n">>
KwDrizzle == <<"d","r","i","z","z","l","e">>
KwSnow == <<"s","n","o","w">>
KwFog == <<"f","o","g">>
KwMist == <<"m","i","s","t">>
KwHaze == <<"h","a","z","e">>
KwClear == <<"c","l","e","a","r">>
KwCloud == <<"c","l","o","u","d">>

ConditionRulesIndependent(f, description, is_day) ==
    LET weather_desc == Lower(description)
        r1 == IF Contains(weather_desc, KwRain) \/ Contains(weather_desc, KwDrizzle)
              THEN Assign(Assign(Assign(Assign(Assign(AugAssign(f,
                       DressCode, DressRain),
                       ActivityIdea, "Movies, board games, or indoor shopping."),
                       CommuteReady, CommuteRain),
                       GreenThumb, GreenThumbRain),
                       PetPalDog, "Wipe paws after walks. Keep pets dry."),
                       MoodBoost, MoodRain)
              ELSE f
        r2 == IF Contains(weather_desc, KwSnow)
              THEN Assign(Assign(Assign(Assign(AugAssign(r1,
                       DressCode, DressSnow),
                       ActivityIdea, "Snowball fight, building a snowman, or relaxing indoors."),
                       CommuteReady, CommuteSnow),
                       PetPalDog, "Limit pet outdoor time, protect paws."),
                       MoodBoost, MoodSnow)
              ELSE r1
        r3 == IF Contains(weather_desc, KwFog) \/ Contains(weather_desc, KwMist)
                    \/ Contains(weather_desc, KwHaze)
              THEN Assign(Assign(Assign(r2,
                       CommuteReady, CommuteFog),
                       HealthTip, "Be extra cautious when walking/driving. Use fog lights."),
                       MoodBoost, MoodFog)
              ELSE r2
        r4 == IF Contains(weather_desc, KwClear) /\ is_day
              THEN Assign(AugAssign(r3,
                       HealthTip, " High UV! Reapply sunscreen often."),
                       SunSafety, SunSafetyText)
              ELSE r3
        r5 == IF Contains(weather_desc, KwClear) /\ ~is_day
              THEN Assign(r4, ActivityIdea, "Fantastic for stargazing or night photography!")
              ELSE r4
    IN  IF Contains(weather_desc, KwCloud)
        THEN Assign(Assign(r5, EnergySavvy, EnergyCloud), MoodBoost, MoodCloud)
        ELSE r5

\* weather_desc = description.lower(); the if/elif chain on its keywords
ConditionRules(f, description, is_day) ==
    LET weather_desc == Lower(description) IN
    IF Contains(weather_desc, KwRain) \/ Contains(weather_desc, KwDrizzle) THEN
        Assign(Assign(Assign(Assign(Assign(AugAssign(f,
            DressCode, DressRain),
            ActivityIdea, "Movies, board games, or indoor shopping."),
            CommuteReady, CommuteRain),
            GreenThumb, GreenThumbRain),
            PetPalDog, "Wipe paws after walks. Keep pets dry."),
            MoodBoost, MoodRain)
    ELSE IF Contains(weather_desc, KwSnow) THEN
        Assign(Assign(Assign(Assign(AugAssign(f,
            DressCode, DressSnow),
            ActivityIdea, "Snowball fight, building a snowman, or relaxing indoors."),
            CommuteReady, CommuteSnow),
            PetPalDog, "Limit pet outdoor time, protect paws."),
            MoodBoost, MoodSnow)
    ELSE IF Contains(weather_desc, KwFog) \/ Contains(weather_desc, KwMist)
            \/ Contains(weather_desc, KwHaze) THEN
        Assign(Assign(Assign(f,
            CommuteReady, CommuteFog),
            HealthTip, "Be extra cautious when walking/driving. Use fog lights."),
            MoodBoost, MoodFog)
    ELSE IF Contains(weather_desc, KwClear) /\ is_day THEN
        Assign(AugAssign(f,
            HealthTip, " High UV! Reapply sunscreen often."),
            SunSafety, SunSafetyText)
    ELSE IF Contains(weather_desc, KwClear) /\ ~is_day THEN
        Assign(f,
            ActivityIdea, "Fantastic for stargazing or night photography!")
    ELSE IF Contains(weather_desc, KwCloud) THEN
        Assign(Assign(f,
            EnergySavvy, EnergyCloud),
            MoodBoost, MoodCloud)
    ELSE f

WindRuleInclusive(f, wind_speed) ==
    IF wind_speed >= 10 THEN
        Assign(Assign(Assign(AugAssign(f,
            DressCode, DressWind),
            ActivityIdea, ActivityWind),
            CommuteReady, CommuteWind),
            WindAdvisory, WindAdvisoryText)
    ELSE f

\* if wind_speed > 10
WindRule(f, wind_speed) ==
    IF wind_speed > 10 THEN
        Assign(Assign(Assign(AugAssign(f,
            DressCode, DressWind),
            ActivityIdea, ActivityWind),
            CommuteReady, CommuteWind),
            WindAdvisory, WindAdvisoryText)
    ELSE f

PressureRulesInclusive(f, pressure) ==
    IF IsNumber(pressure) THEN
        IF pressure.val <= 1000 THEN
            AugAssign(AugAssign(f,
                HealthTip, HealthLowPressure),
                ActivityIdea, ActivityLowPressure)
        ELSE IF pressure.val >= 1020 THEN
            AugAssign(f, EnergySavvy, EnergyHighPressure)
        ELSE f
    ELSE f

\* if isinstance(pressure, (int, float)): if pressure < 1000 / elif pressure > 1020
PressureRules(f, pressure) ==
    IF IsNumber(pressure) THEN
        IF pressure.val < 1000 THEN
            AugAssign(AugAssign(f,
                HealthTip, HealthLowPressure),
                ActivityIdea, ActivityLowPressure)
        ELSE IF pressure.val > 1020 THEN
            AugAssign(f, EnergySavvy, EnergyHighPressure)
        ELSE f
    ELSE f

VisibilityRuleKeepsEarlier(f, visibility) ==
    IF IsNumber(visibility) /\ visibility.val < 5000 THEN
        AugAssign(IF GetItem(f.d, CommuteReady) = << >>
                  THEN Assign(f, CommuteReady, CommuteVisibility) ELSE f,
            HealthTip, " Be extra alert when outdoors.")
    ELSE f

\* if isinstance(visibility, (int, float)) and visibility < 5000
VisibilityRule(f, visibility) ==
    IF IsNumber(visibility) /\ visibility.val < 5000 THEN
        AugAssign(Assign(f,
            CommuteReady, CommuteVisibility),
            HealthTip, " Be extra alert when outdoors.")
    ELSE f

\* if temp >= 25 or humidity >= 70 / else
HydrationRule(f, temp, humidity) ==
    IF temp >= 25 \/ humidity >= 70
    THEN Assign(f, StayHydrated, DrinkPlenty)
    ELSE Assign(f, StayHydrated, SipRegularly)

\* if temp < 10 / elif temp > 28, on the paw-prints key
PetCareRule(f, temp) ==
    IF temp < 10 THEN AugAssign(f, PetPalPaw, PetWarmBedding)
    ELSE IF temp > 28 THEN AugAssign(f, PetPalPaw, PetWaterShade)
    ELSE f

\* {k: v for k, v in suggestions.items() if v}
NonEmptyItems(d) == SelectSeq(d, LAMBDA item : item.v # << >>)

\* The call: the outcome is "returned" with the result mapping, or the
\* exception that left the function, with the local dict at that point.
get_innovative_weather_suggestions(a) ==
    LET f0 == [d |-> InitialSuggestions, err |-> "none"]
        f1 == TemperatureRules(f0, a.temp)
        f2 == ConditionRules(f1, a.description, a.is_day)
        f3 == WindRule(f2, a.wind_speed)
        f4 == PressureRules(f3, a.pressure)
        f5 == VisibilityRule(f4, a.visibility)
        f6 == HydrationRule(f5, a.temp, a.humidity)
        f7 == PetCareRule(f6, a.temp)
    IN  IF f7.err = "none"
        THEN [status |-> "returned", result |-> NonEmptyItems(f7.d), suggestions |-> f7.d]
        ELSE [status |-> f7.err, result |-> << >>, suggestions |-> f7.d]

-----------------------------------------------------------------------------
(* Specification of the rule engine: the arguments are drawn from the      *)
(* input domain, the call is made once.                                    *)

NoCall == [status |-> "none"]

\* no browser session is part of the specification
NoSession ==
    /\ session_state = NoCall
    /\ auto_refresh = FALSE
    /\ cache = NoCall
    /\ clock = 0
    /\ hist = NoCall
    /\ run = NoCall
    /\ geo_calls = 0

\* no script run is part of the specification
NoRun ==
    /\ NoSession
    /\ runIn = NoCall
    /\ pc = "none"
    /\ weather_data = NoCall
    /\ news_articles = << >>
    /\ ui = << >>
    /\ calls = << >>

Init ==
    /\ NoRun
    /\ advIn \in AdviceInputs
    /\ advOut = Pending
    /\ timeIn = NoCall
    /\ timeOut = NoCall
    /\ newsIn = NoCall
    /\ newsOut = NoCall

CallSuggestions ==
    /\ advOut = Pending
    /\ advOut' = get_innovative_weather_suggestions(advIn)
    /\ UNCHANGED <<advIn, timeIn, timeOut, newsIn, newsOut>>
    /\ UNCHANGED cycleVars

Next == CallSuggestions

Spec == Init /\ [][Next]_vars

-----------------------------------------------------------------------------
(* get_day_night_and_local_time.                                           *)
(* A timestamp is a whole number of seconds since the epoch.  An aware     *)
(* datetime in the fixed-offset zone is its local calendar day and its     *)
(* second of that day; datetimes that share one tzinfo compare and         *)
(* subtract on these local fields.                                         *)

SecondsPerDay == 86400

SunriseTimes == {21600, 86390, 1718942400}

DayLengths == {0, 59, 45000, 45059}

Offsets == {-43200, -3600, 0, 7200, 19800, 50400}

NowTimes(sunrise, sunset) ==
    {sunrise + k : k \in -MaxSkew..MaxSkew} \cup {sunset + k : k \in -MaxSkew..MaxSkew}

TimeInputs ==
    UNION { { [current_timestamp |-> now, sunrise_timestamp |-> q[1],
               sunset_timestamp |-> q[1] + q[2], timezone_offset_seconds |-> q[3]] :
                 now \in NowTimes(q[1], q[1] + q[2]) } :
            q \in SunriseTimes \X DayLengths \X Offsets }

\* datetime.datetime.fromtimestamp(ts, tz=timezone(timedelta(seconds=offset)))
FromTimestamp(ts, offset) ==
    [day |-> (ts + offset) \div SecondsPerDay, sec |-> (ts + offset) % SecondsPerDay]

\* a <= b on datetimes of one tzinfo
DtLessEq(a, b) == a.day < b.day \/ (a.day = b.day /\ a.sec <= b.sec)

DtDiffSecondsNoDays(a, b) == a.sec - b.sec

\* (a - b).total_seconds() on datetimes of one tzinfo
DtDiffSeconds(a, b) == (a.day - b.day) * SecondsPerDay + (a.sec - b.sec)

Digits == <<"0","1","2","3","4","5","6","7","8","9">>

RECURSIVE NatStr(_)
\* str(n) for n >= 0
NatStr(n) == IF n < 10 THEN <<Digits[n + 1]>> ELSE Append(NatStr(n \div 10), Digits[(n % 10) + 1])

\* f"{n}" for an int
IntStr(n) == IF n < 0 THEN <<"-">> \o NatStr(-n) ELSE NatStr(n)

\* two-digit zero-padded field of strftime
Pad2(n) == <<Digits[(n \div 10) + 1], Digits[(n % 10) + 1]>>

\* dt.strftime('%H:%M %p')
StrfTime(dt) ==
    LET hour == dt.sec \div 3600
        minute == (dt.sec % 3600) \div 60
    IN  Pad2(hour) \o <<":">> \o Pad2(minute) \o <<" ">>
        \o (IF hour < 12 THEN <<"A","M">> ELSE <<"P","M">>)

IsDayStrict(sunrise_dt_local, current_dt_local, sunset_dt_local) ==
    DtLessEq(sunrise_dt_local, current_dt_local)
    /\ ~DtLessEq(sunset_dt_local, current_dt_local)

\* sunrise_dt_local <= current_dt_local <= sunset_dt_local
IsDay(sunrise_dt_local, current_dt_local, sunset_dt_local) ==
    DtLessEq(sunrise_dt_local, current_dt_local)
    /\ DtLessEq(current_dt_local, sunset_dt_local)

Daytime == "Daytime"
Nighttime == "Nighttime"

get_day_night_and_local_time(a) ==
    LET current_dt_local == FromTimestamp(a.current_timestamp, a.timezone_offset_seconds)
        sunrise_dt_local == FromTimestamp(a.sunrise_timestamp, a.timezone_offset_seconds)
        sunset_dt_local == FromTimestamp(a.sunset_timestamp, a.timezone_offset_seconds)
        day_length_seconds == DtDiffSeconds(sunset_dt_local, sunrise_dt_local)
        day_length_hours == day_length_seconds \div 3600
        day_length_minutes == (day_length_seconds % 3600) \div 60
    IN  [status |-> "returned",
         day_night_status |->
            IF IsDay(sunrise_dt_local, current_dt_local, sunset_dt_local)
            THEN Daytime ELSE Nighttime,
         local_time |-> StrfTime(current_dt_local),
         day_length |-> IntStr(day_length_hours) \o <<"h"," ">>
                        \o IntStr(day_length_minutes) \o <<"m">>,
         sunrise |-> StrfTime(sunrise_dt_local),
         sunset |-> StrfTime(sunset_dt_local)]

InitTime ==
    /\ NoRun
    /\ timeIn \in TimeInputs
    /\ timeOut = Pending
    /\ advIn = NoCall
    /\ advOut = NoCall
    /\ newsIn = NoCall
    /\ newsOut = NoCall

CallDayNight ==
    /\ timeOut = Pending
    /\ timeOut' = get_day_night_and_local_time(timeIn)
    /\ UNCHANGED <<advIn, advOut, timeIn, newsIn, newsOut>>
    /\ UNCHANGED cycleVars

NextTime == CallDayNight

SpecTime == InitTime /\ [][NextTime]_vars

-----------------------------------------------------------------------------
(* Properties of get_innovative_weather_suggestions  (specification Spec)  *)

\* the call has been made and has ended, by return or by exception
Called == advOut.status \in {"returned", "KeyError"}

Returned == advOut.status = "returned"

\* the literal lit is one of the pieces of the text under key k
HasFragment(d, k, lit) ==
    HasKey(d, k) /\ \E i \in 1..Len(GetItem(d, k)) : GetItem(d, k)[i] = lit

Last(t) == t[Len(t)]

\* the Dress Code literal of the temperature band that contains temp
BandDress(temp) ==
    IF temp < 5 THEN DressFreezing
    ELSE IF temp < 15 THEN DressCool
    ELSE IF temp < 25 THEN DressMild
    ELSE IF temp < 30 THEN DressWarm
    ELSE DressHot

\* C1: for every temperature, with any other arguments, the call completes
\* and returns a mapping; it never raises.
C1_NeverRaises == Called => Returned

\* C2: for every input the returned mapping holds the Hydration slot with
\* exactly the 'drink plenty' string when temp >= 25 or humidity >= 70 and
\* exactly the 'sip regularly' string otherwise.
C2_HydrationAlways ==
    Called =>
        /\ HasKey(advOut.result, StayHydrated)
        /\ GetItem(advOut.result, StayHydrated) =
              IF advIn.temp >= 25 \/ advIn.humidity >= 70
              THEN <<DrinkPlenty>> ELSE <<SipRegularly>>

\* C3: for every input the returned mapping is not empty: it holds the
\* Hydration slot and the Dress Code slot.
C3_NeverEmpty ==
    Called =>
        /\ HasKey(advOut.result, StayHydrated)
        /\ HasKey(advOut.result, DressCode)

\* C4: for every input the returned Dress Code begins with the text of the
\* half-open band containing temp (5 is cool, 30 is hot).
C4_BandOfTemp ==
    Called =>
        /\ HasKey(advOut.result, DressCode)
        /\ Head(GetItem(advOut.result, DressCode)) = BandDress(advIn.temp)

Scenario ==
    [temp |-> 32, description |-> <<"l","i","g","h","t"," ","r","a","i","n">>,
     wind_speed |-> 15, humidity |-> 80, is_day |-> TRUE,
     pressure |-> Num(995), visibility |-> Num(3000)]

\* C5: the call with temp 32, "light rain", wind 15, humidity 80, day,
\* pressure 995, visibility 3000 returns Dress Code = hot + rain + windproof,
\* Commute = reduced visibility, Hydration = drink plenty, and a Wind Advisory.
C5_EndToEnd ==
    (Called /\ advIn = Scenario) =>
        /\ Returned
        /\ GetItem(advOut.result, DressCode) = <<DressHot, DressRain, DressWind>>
        /\ GetItem(advOut.result, CommuteReady) = <<CommuteVisibility>>
        /\ GetItem(advOut.result, StayHydrated) = <<DrinkPlenty>>
        /\ HasKey(advOut.result, WindAdvisory)

\* the Pet Care text of the returned mapping, under either spelling of the key
PetTexts(d) == {d[i].v : i \in {j \in 1..Len(d) : d[j].k \in {PetPalDog, PetPalPaw}}}

\* C6: when temp < 10 the returned mapping has a Pet Care text ending with
\* the warm-bedding fragment, when temp > 28 one ending with the
\* water-and-shade fragment, and for 10 <= temp <= 28 neither fragment.
C6_PetCare ==
    Called =>
        /\ advIn.temp < 10 =>
              \E t \in PetTexts(advOut.result) : Last(t) = PetWarmBedding
        /\ advIn.temp > 28 =>
              \E t \in PetTexts(advOut.result) : Last(t) = PetWaterShade
        /\ (10 <= advIn.temp /\ advIn.temp <= 28) =>
              \A t \in PetTexts(advOut.result) :
                 \A i \in 1..Len(t) : t[i] \notin {PetWarmBedding, PetWaterShade}

LowPressure == IsNumber(advIn.pressure) /\ advIn.pressure.val < 1000

HighPressure == IsNumber(advIn.pressure) /\ advIn.pressure.val > 1020

PressureFragmentsExact(d) ==
    /\ HasFragment(d, HealthTip, HealthLowPressure) <=> LowPressure
    /\ HasFragment(d, ActivityIdea, ActivityLowPressure) <=> LowPressure
    /\ HasFragment(d, EnergySavvy, EnergyHighPressure) <=> HighPressure

\* C7: the low-pressure fragments are in Health Tip and Activity Idea exactly
\* when pressure is a number < 1000, the high-pressure fragment is in Energy
\* Savvy exactly when pressure is a number > 1020; at 1000, at 1020 and in
\* between neither is appended.  Stated of the function's dictionary when the
\* call ends and of the mapping it returns.
C7_PressureStrict ==
    /\ Called => PressureFragmentsExact(advOut.suggestions)
    /\ Returned => PressureFragmentsExact(advOut.result)

C7_Witness ==
    /\ Returned
    /\ advIn.pressure = Num(1000)
    /\ HasKey(advOut.result, HealthTip)
    /\ ~HasFragment(advOut.result, HealthTip, HealthLowPressure)
    /\ ~HasFragment(advOut.result, EnergySavvy, EnergyHighPressure)

\* position of a key in the fixed enumeration of categories
CategoryIndex(k) == CHOOSE j \in 1..Len(Categories) : Categories[j] = k

\* C9: a returned mapping holds only non-empty texts, every key is one of the
\* eleven categories, and the keys come in the enumeration order whatever
\* the order in which the rules filled them.
C9_FixedOrder ==
    Returned =>
        LET r == advOut.result IN
        /\ \A i \in 1..Len(r) :
              /\ r[i].v # << >>
              /\ \E j \in 1..Len(Categories) : Categories[j] = r[i].k
        /\ \A i, j \in 1..Len(r) :
              i < j => CategoryIndex(r[i].k) < CategoryIndex(r[j].k)

\* Wind Advisory was filled by the wind rule before Hydration was filled,
\* Mood Boost by the condition rule before both, yet the result lists
\* Hydration, then Wind Advisory, then Mood Boost.
C9_Witness ==
    /\ Returned
    /\ HasKey(advOut.result, WindAdvisory)
    /\ HasKey(advOut.result, MoodBoost)
    /\ HasKey(advOut.result, StayHydrated)
    /\ advOut.result[Len(advOut.result)].k = MoodBoost

-----------------------------------------------------------------------------
(* Properties of get_day_night_and_local_time  (specification SpecTime)    *)

TimeReturned == timeOut.status = "returned"

\* C10: daytime is reported exactly when sunrise <= now <= sunset on the
\* timestamps, both ends included, and the verdict is the same under every
\* UTC offset.
C10_DayInclusive ==
    TimeReturned =>
        /\ (timeOut.day_night_status = Daytime) <=>
              (/\ timeIn.sunrise_timestamp <= timeIn.current_timestamp
               /\ timeIn.current_timestamp <= timeIn.sunset_timestamp)
        /\ \A off \in Offsets :
              get_day_night_and_local_time(
                  [timeIn EXCEPT !.timezone_offset_seconds = off]).day_night_status
              = timeOut.day_night_status

\* now is exactly the sunset instant of a day of positive length whose
\* sunrise and sunset fall on different local calendar days
C10_Witness ==
    /\ TimeReturned
    /\ timeIn.current_timestamp = timeIn.sunset_timestamp
    /\ timeIn.sunrise_timestamp < timeIn.sunset_timestamp
    /\ FromTimestamp(timeIn.sunrise_timestamp, timeIn.timezone_offset_seconds).day
         # FromTimestamp(timeIn.sunset_timestamp, timeIn.timezone_offset_seconds).day
    /\ timeOut.day_night_status = Daytime

\* the text "{h}h {m}m"
DayLengthText(h, m) == IntStr(h) \o <<"h"," ">> \o IntStr(m) \o <<"m">>

\* C11: with sunrise <= sunset the day-length string is "{H}h {M}m" with
\* H = floor((sunset - sunrise) / 3600), M = floor(((sunset - sunrise) mod
\* 3600) / 60), 0 <= M < 60; it does not depend on the UTC offset or on now;
\* sunrise 06:00 and sunset 18:30 give "12h 30m".
C11_DayLength ==
    (TimeReturned /\ timeIn.sunrise_timestamp <= timeIn.sunset_timestamp) =>
        LET len == timeIn.sunset_timestamp - timeIn.sunrise_timestamp
            H == len \div 3600
            M == (len % 3600) \div 60
        IN  /\ timeOut.day_length = DayLengthText(H, M)
            /\ M \in 0..59
            /\ \A off \in Offsets : \A now \in NowTimes(timeIn.sunrise_timestamp, timeIn.sunset_timestamp) :
                  get_day_night_and_local_time(
                      [timeIn EXCEPT !.timezone_offset_seconds = off,
                                     !.current_timestamp = now]).day_length
                  = timeOut.day_length
            /\ len = 45000 => timeOut.day_length = <<"1","2","h"," ","3","0","m">>

\* sunrise at 06:00 local and sunset at 18:30 local
C11_Witness ==
    /\ TimeReturned
    /\ timeOut.sunrise = <<"0","6",":","0","0"," ","A","M">>
    /\ FromTimestamp(timeIn.sunset_timestamp, timeIn.timezone_offset_seconds).sec = 66600
    /\ timeIn.sunset_timestamp - timeIn.sunrise_timestamp = 45000
    /\ timeOut.day_length = <<"1","2","h"," ","3","0","m">>

\* value of a decimal digit character
DigitValue(c) == (CHOOSE i \in 1..Len(Digits) : Digits[i] = c) - 1

\* the number written in the first two characters of a time-of-day string
HourField(t) == DigitValue(t[1]) * 10 + DigitValue(t[2])

\* C12: the time-of-day strings (local time, sunrise, sunset) are on a
\* 12-hour clock with AM/PM: the hour field is always in 1..12.
C12_TwelveHourClock ==
    TimeReturned =>
        /\ HourField(timeOut.local_time) \in 1..12
        /\ HourField(timeOut.sunrise) \in 1..12
        /\ HourField(timeOut.sunset) \in 1..12

-----------------------------------------------------------------------------
(* get_news.                                                               *)
(* Country names, codes and keys are sequences of one-character strings.   *)
(* The provider's answer to the one requests.get of the call is an input:  *)
(* an exception of requests, a body that is not JSON, or a parsed JSON     *)
(* value.  A JSON object is the sequence of its members [k, v]; a JSON     *)
(* value is tagged with its type.                                          *)

COUNTRY_NAME_TO_ISO ==
    <<
       [name |-> <<"U","n","i","t","e","d"," ","S","t","a","t","e","s">>, iso |-> <<"u","s">>],
       [name |-> <<"C","a","n","a","d","a">>, iso |-> <<"c","a">>],
       [name |-> <<"U","n","i","t","e","d"," ","K","i","n","g","d","o","m">>, iso |-> <<"g","b">>],
       [name |-> <<"A","u","s","t","r","a","l","i","a">>, iso |-> <<"a","u">>],
       [name |-> <<"G","e","r","m","a","n","y">>, iso |-> <<"d","e">>],
       [name |-> <<"F","r","a","n","c","e">>, iso |-> <<"f","r">>],
       [name |-> <<"S","o","u","t","h"," ","A","f","r","i","c","a">>, iso |-> <<"z","a">>],
       [name |-> <<"I","n","d","i","a">>, iso |-> <<"i","n">>],
       [name |-> <<"B","r","a","z","i","l">>, iso |-> <<"b","r">>],
       [name |-> <<"C","h","i","n","a">>, iso |-> <<"c","n">>],
       [name |-> <<"J","a","p","a","n">>, iso |-> <<"j","p">>],
       [name |-> <<"M","e","x","i","c","o">>, iso |-> <<"m","x">>],
       [name |-> <<"N","i","g","e","r","i","a">>, iso |-> <<"n","g">>],
       [name |-> <<"E","g","y","p","t">>, iso |-> <<"e","g">>],
       [name |-> <<"I","r","e","l","a","n","d">>, iso |-> <<"i","e">>],
       [name |-> <<"I","t","a","l","y">>, iso |-> <<"i","t">>],
       [name |-> <<"N","e","t","h","e","r","l","a","n","d","s">>, iso |-> <<"n","l">>],
       [name |-> <<"N","e","w"," ","Z","e","a","l","a","n","d">>, iso |-> <<"n","z">>],
       [name |-> <<"N","o","r","w","a","y">>, iso |-> <<"n","o">>],
       [name |-> <<"P","h","i","l","i","p","p","i","n","e","s">>, iso |-> <<"p","h">>],
       [name |-> <<"P","o","l","a","n","d">>, iso |-> <<"p","l">>],
       [name |-> <<"P","o","r","t","u","g","a","l">>, iso |-> <<"p","t">>],
       [name |-> <<"R","o","m","a","n","i","a">>, iso |-> <<"r","o">>],
       [name |-> <<"R","u","s","s","i","a">>, iso |-> <<"r","u">>],
       [name |-> <<"S","a","u","d","i"," ","A","r","a","b","i","a">>, iso |-> <<"s","a">>],
       [name |-> <<"S","e","r","b","i","a">>, iso |-> <<"r","s">>],
       [name |-> <<"S","i","n","g","a","p","o","r","e">>, iso |-> <<"s","g">>],
       [name |-> <<"S","l","o","v","a","k","i","a">>, iso |-> <<"s","k">>],
       [name |-> <<"S","l","o","v","e","n","i","a">>, iso |-> <<"s","i">>],
       [name |-> <<"S","o","u","t","h"," ","K","o","r","e","a">>, iso |-> <<"k","r">>],
       [name |-> <<"S","w","e","d","e","n">>, iso |-> <<"s","e">>],
       [name |-> <<"S","w","i","t","z","e","r","l","a","n","d">>, iso |-> <<"c","h">>],
       [name |-> <<"T","a","i","w","a","n">>, iso |-> <<"t","w">>],
       [name |-> <<"T","h","a","i","l","a","n","d">>, iso |-> <<"t","h">>],
       [name |-> <<"T","u","r","k","e","y">>, iso |-> <<"t","r">>],
       [name |-> <<"U","k","r","a","i","n","e">>, iso |-> <<"u","a">>],
       [name |-> <<"U","n","i","t","e","d"," ","A","r","a","b"," ","E","m","i","r","a","t","e","s">>, iso |-> <<"a","e">>],
       [name |-> <<"V","e","n","e","z","u","e","l","a">>, iso |-> <<"v","e">>]
    >>

\* Python None
PyNone == <<"None">>

\* `not x` for a str or None
Falsy(x) == x = PyNone \/ x = << >>

IsAlphaChar(c) ==
    \/ \E i \in 1..Len(UpperCase) : UpperCase[i] = c
    \/ \E i \in 1..Len(LowerCase) : LowerCase[i] = c

\* str.isalpha()
IsAlpha(s) == Len(s) > 0 /\ \A i \in 1..Len(s) : IsAlphaChar(s[i])

\* str.upper() on one character
UpperChar(c) ==
    IF \E i \in 1..Len(LowerCase) : LowerCase[i] = c
    THEN UpperCase[CHOOSE i \in 1..Len(LowerCase) : LowerCase[i] = c]
    ELSE c

\* str.upper()
Upper(s) == [i \in 1..Len(s) |-> UpperChar(s[i])]

TitleIdentity(s) == s

\* str.title(): a letter is upper-cased when it starts a run of letters and
\* lower-cased inside one
Title(s) ==
    [i \in 1..Len(s) |->
        IF i > 1 /\ IsAlphaChar(s[i - 1]) THEN LowerChar(s[i]) ELSE UpperChar(s[i])]

\* COUNTRY_NAME_TO_ISO.get(name, None)
CountryNameToIsoGet(name) ==
    IF \E i \in 1..Len(COUNTRY_NAME_TO_ISO) : COUNTRY_NAME_TO_ISO[i].name = name
    THEN COUNTRY_NAME_TO_ISO[CHOOSE i \in 1..Len(COUNTRY_NAME_TO_ISO) :
                                 COUNTRY_NAME_TO_ISO[i].name = name].iso
    ELSE PyNone

\* ISO_TO_FULL_COUNTRY_NAME.get(code, default): the inverse table; for a code
\* that several names share the last name in table order wins
IsoToFullCountryNameGet(code, default) ==
    LET hits == {i \in 1..Len(COUNTRY_NAME_TO_ISO) : COUNTRY_NAME_TO_ISO[i].iso = code}
    IN  IF hits = {} THEN default
        ELSE COUNTRY_NAME_TO_ISO[CHOOSE i \in hits : \A j \in hits : j <= i].name

ResolveCountryTableOnly(country_name) == CountryNameToIsoGet(Title(country_name))

\* lines 289-295: a 2-letter alphabetic token is lower-cased, anything else
\* is looked up by its title-cased form
ResolveCountry(country_name) ==
    IF Len(country_name) = 2 /\ IsAlpha(country_name)
    THEN Lower(country_name)
    ELSE CountryNameToIsoGet(Title(country_name))

FallbackCode == <<"u","s">>

WithFallbackSilent(iso_country_code, country_name) ==
    [code |-> IF Falsy(iso_country_code) THEN FallbackCode ELSE iso_country_code,
     warnings |-> << >>]

\* lines 297-301: an unresolved code is reported by st.warning and replaced
WithFallback(iso_country_code, country_name) ==
    IF Falsy(iso_country_code)
    THEN [code |-> FallbackCode,
          warnings |-> << [kind |-> "country_fallback",
                           display_country_name |->
                               IsoToFullCountryNameGet(Lower(country_name), country_name)] >>]
    ELSE [code |-> iso_country_code, warnings |-> << >>]

JNull == [type |-> "null"]

JList(items) == [type |-> "list", items |-> items]

JObject(members) == [type |-> "object", members |-> members]

\* bool(v) of a parsed JSON value
Truthy(v) ==
    CASE v.type = "null" -> FALSE
      [] v.type = "list" -> v.items # << >>
      [] v.type = "object" -> v.members # << >>

\* data.get(key) on a dict; None when the key is absent
JGet(data, key) ==
    IF \E i \in 1..Len(data.members) : data.members[i].k = key
    THEN data.members[CHOOSE i \in 1..Len(data.members) : data.members[i].k = key].v
    ELSE JNull

PLACEHOLDER_NEWS_KEY == <<"Y","O","U","R","_","N","E","W","S","_","A","P","I","_","K","E","Y">>

\* NEWS_API_KEY as configured in the source, abbreviated
NEWS_API_KEY == <<"3","5","6","0">>

PageSize == 5

\* lines 303-310: the query parameters of the request
NewsParams(query, iso_country_code, api_key) ==
    [apiKey |-> api_key, pageSize |-> PageSize, country |-> iso_country_code,
     has_q |-> query # << >>, q |-> query]

\* lines 312-324: the try block around requests.get, raise_for_status,
\* response.json() and the test of data
HandleNewsResponse(response) ==
    CASE response.kind \in {"timeout", "connection_error", "http_error"} ->
            \* except requests.exceptions.RequestException
            [status |-> "returned", result |-> << >>, errors |-> <<"fetch_error">>]
      [] response.kind = "not_json_requests_error" ->
            \* requests.exceptions.JSONDecodeError is a RequestException
            [status |-> "returned", result |-> << >>, errors |-> <<"fetch_error">>]
      [] response.kind = "not_json_stdlib_error" ->
            \* except json.JSONDecodeError
            [status |-> "returned", result |-> << >>, errors |-> <<"decode_error">>]
      [] response.kind = "json" ->
            LET data == response.data IN
            IF ~Truthy(data)
            THEN [status |-> "returned", result |-> << >>, errors |-> << >>]
            ELSE IF data.type # "object"
            THEN \* a list has no attribute get
                 [status |-> "AttributeError", result |-> << >>, errors |-> << >>]
            ELSE IF Truthy(JGet(data, "articles"))
            THEN [status |-> "returned", result |-> JGet(data, "articles").items,
                  errors |-> << >>]
            ELSE [status |-> "returned", result |-> << >>, errors |-> << >>]

\* The call.  The outcome holds how the call ended, the returned list, the
\* st.error and st.warning messages and the provider requests it issued.
get_news(query, country_name, api_key, response) ==
    IF Falsy(api_key) \/ api_key = PLACEHOLDER_NEWS_KEY
    THEN [status |-> "returned", result |-> << >>, errors |-> <<"unconfigured">>,
          warnings |-> << >>, requests |-> << >>]
    ELSE LET resolved == WithFallback(ResolveCountry(country_name), country_name)
             handled == HandleNewsResponse(response)
         IN  [status |-> handled.status, result |-> handled.result,
              errors |-> handled.errors, warnings |-> resolved.warnings,
              requests |-> << NewsParams(query, resolved.code, api_key) >>]

MaxArticles == 8

\* the first n articles of the provider, named by their rank
Articles(n) == [i \in 1..n |-> i]

OkMembers == << [k |-> "status", v |-> JNull] >>

NewsResponses ==
    { [kind |-> k, data |-> JNull] :
        k \in {"timeout", "connection_error", "http_error",
               "not_json_requests_error", "not_json_stdlib_error"} }
    \cup { [kind |-> "json", data |-> d] :
            d \in { JObject(Append(OkMembers, [k |-> "articles", v |-> JList(Articles(n))])) :
                      n \in 0..MaxArticles }
                  \cup { JObject(OkMembers),
                         JObject(Append(OkMembers, [k |-> "articles", v |-> JNull])),
                         JObject(<< >>),
                         JList(<< >>),
                         JList(Articles(1)),
                         JNull } }

\* str.swapcase()
SwapCase(s) ==
    [i \in 1..Len(s) |-> IF LowerChar(s[i]) = s[i] THEN UpperChar(s[i]) ELSE LowerChar(s[i])]

TableNames == {COUNTRY_NAME_TO_ISO[i].name : i \in 1..Len(COUNTRY_NAME_TO_ISO)}

CountryInputs ==
    UNION { {n, Lower(n), Upper(n), SwapCase(n)} : n \in TableNames }
    \cup { <<"Z","Z">>, <<"z","a">>, <<"Z","a">>, <<"U","S">>, <<"A","t","l","a","n","t","i","s">>, <<"U","1">>, <<"z">>, <<"s","o","u","t","h","-","a","f","r","i","c","a">>, << >> }

NewsQueries == { << >>, <<"s","p","o","r","t">> }

NewsKeys == { << >>, PLACEHOLDER_NEWS_KEY, NEWS_API_KEY }

NewsInputs ==
    [query : NewsQueries, country_name : CountryInputs, api_key : NewsKeys,
     response : NewsResponses]

InitNews ==
    /\ NoRun
    /\ newsIn \in NewsInputs
    /\ newsOut = Pending
    /\ advIn = NoCall
    /\ advOut = NoCall
    /\ timeIn = NoCall
    /\ timeOut = NoCall

CallNews ==
    /\ newsOut = Pending
    /\ newsOut' = get_news(newsIn.query, newsIn.country_name, newsIn.api_key,
                           newsIn.response)
    /\ UNCHANGED <<advIn, advOut, timeIn, timeOut, newsIn>>
    /\ UNCHANGED cycleVars

NextNews == CallNews

SpecNews == InitNews /\ [][NextNews]_vars

-----------------------------------------------------------------------------
(* Properties of get_news  (specification SpecNews)                        *)

\* the call has been made and has ended, by return or by exception
NewsCalled == newsOut.status \in {"returned", "AttributeError"}

\* the key passes the test of lines 285-287
NewsKeyConfigured ==
    ~(Falsy(newsIn.api_key) \/ newsIn.api_key = PLACEHOLDER_NEWS_KEY)

\* the table entries whose name equals s up to the case of letters
MatchingEntries(s) ==
    {i \in 1..Len(COUNTRY_NAME_TO_ISO) : Lower(COUNTRY_NAME_TO_ISO[i].name) = Lower(s)}

TwoLetterToken(s) == Len(s) = 2 /\ IsAlpha(s)

\* C13: a country name of the table, in any upper/lower-casing of its
\* letters, is sent to the provider as that name's ISO code, with no
\* fallback warning (the API key being configured).
C13_CaseInsensitive ==
    (NewsCalled /\ NewsKeyConfigured) =>
        \A i \in MatchingEntries(newsIn.country_name) :
            /\ Len(newsOut.requests) = 1
            /\ newsOut.requests[1].country = COUNTRY_NAME_TO_ISO[i].iso
            /\ newsOut.warnings = << >>

\* "south africa" was sent as "za"
C13_Witness ==
    /\ NewsCalled
    /\ newsIn.country_name = <<"s","o","u","t","h"," ","a","f","r","i","c","a">>
    /\ Len(newsOut.requests) = 1
    /\ newsOut.requests[1].country = <<"z","a">>
    /\ newsOut.warnings = << >>

\* C14: a 2-letter alphabetic country is lower-cased and sent as the country
\* code as it is, without a lookup and without a warning, also when no table
\* entry has that code.
C14_TwoLetterVerbatim ==
    (NewsCalled /\ NewsKeyConfigured /\ TwoLetterToken(newsIn.country_name)) =>
        /\ Len(newsOut.requests) = 1
        /\ newsOut.requests[1].country = Lower(newsIn.country_name)
        /\ newsOut.warnings = << >>

\* "ZZ", the code of no table entry, was sent as "zz"
C14_Witness ==
    /\ NewsCalled
    /\ newsIn.country_name = <<"Z","Z">>
    /\ \A i \in 1..Len(COUNTRY_NAME_TO_ISO) : COUNTRY_NAME_TO_ISO[i].iso # <<"z","z">>
    /\ Len(newsOut.requests) = 1
    /\ newsOut.requests[1].country = <<"z","z">>
    /\ newsOut.warnings = << >>

\* C15: a country that is neither a 2-letter alphabetic token nor a table
\* name gets one warning and the code "us"; the request is still issued and
\* the call ends exactly as the call for "us" does.
C15_FallbackDegraded ==
    (/\ NewsCalled
     /\ NewsKeyConfigured
     /\ ~TwoLetterToken(newsIn.country_name)
     /\ MatchingEntries(newsIn.country_name) = {}) =>
        LET direct == get_news(newsIn.query, FallbackCode, newsIn.api_key, newsIn.response)
        IN  /\ Len(newsOut.warnings) = 1
            /\ newsOut.warnings[1].kind = "country_fallback"
            /\ Len(newsOut.requests) = 1
            /\ newsOut.requests[1].country = FallbackCode
            /\ newsOut.status = direct.status
            /\ newsOut.result = direct.result
            /\ newsOut.errors = direct.errors

\* "Atlantis" was warned about, sent as "us", and articles came back
C15_Witness ==
    /\ newsOut.status = "returned"
    /\ newsIn.country_name = <<"A","t","l","a","n","t","i","s">>
    /\ Len(newsOut.warnings) = 1
    /\ newsOut.warnings[1].display_country_name = <<"A","t","l","a","n","t","i","s">>
    /\ newsOut.requests[1].country = FallbackCode
    /\ newsOut.result # << >>

\* the articles of the provider's response, << >> when it has none
ResponseArticles ==
    IF newsIn.response.kind = "json" /\ newsIn.response.data.type = "object"
       /\ JGet(newsIn.response.data, "articles").type = "list"
    THEN JGet(newsIn.response.data, "articles").items
    ELSE << >>

Min(a, b) == IF a < b THEN a ELSE b

\* C16: the returned sequence never has more than 5 articles, whatever the
\* provider's response contains; it is the first min(5, n) articles of the
\* response in provider order.
C16_AtMostFive ==
    (NewsCalled /\ NewsKeyConfigured) =>
        /\ Len(newsOut.result) <= 5
        /\ newsOut.result = SubSeq(ResponseArticles, 1, Min(5, Len(ResponseArticles)))

\* the provider call failed or its body is not an object with a list of articles
NewsProviderError ==
    \/ newsIn.response.kind # "json"
    \/ newsIn.response.data.type # "object"
    \/ JGet(newsIn.response.data, "articles").type # "list"

\* C17: for every outcome of the provider call get_news returns a sequence;
\* on every error (timeout, connection error, non-2xx status, body that is
\* not JSON, JSON of an unexpected shape) the sequence is empty and the error
\* has been reported through st.error.
C17_NeverFailsCaller ==
    NewsCalled =>
        /\ newsOut.status = "returned"
        /\ (NewsKeyConfigured /\ NewsProviderError) =>
              (newsOut.result = << >> /\ newsOut.errors # << >>)

-----------------------------------------------------------------------------
(* get_weather and the main content display of one script run.             *)
(* A parsed weather body is tagged like a JSON value; an object is the set *)
(* of the paths present in it (for example "main.temp", "weather.0.main")  *)
(* and a record of the values at those paths.                              *)

PLACEHOLDER_WEATHER_KEY == <<"Y","O","U","R","_","O","P","E","N","W","E","A","T","H","E","R","_","A","P","I","_","K","E","Y">>

\* OPENWEATHER_API_KEY as configured in the source, abbreviated
OPENWEATHER_API_KEY == <<"7","6","4","5">>

WObject(present, val) == [type |-> "object", present |-> present, val |-> val]

\* bool(weather_data)
WeatherTruthy(d) ==
    CASE d.type = "null" -> FALSE
      [] d.type = "list" -> d.items # << >>
      [] d.type = "object" -> d.present # {}

get_weather_retrying(city, country, api_key, response) ==
    IF response.kind = "json"
    THEN [status |-> "returned", result |-> response.data, errors |-> << >>, nrequests |-> 1]
    ELSE [status |-> "returned", result |-> JNull, errors |-> <<"weather_fetch_error">>,
          nrequests |-> 2]

\* lines 76-103.  The outcome holds how the call ended, the returned value
\* (JNull for None), the st.error messages and the number of requests.get calls.
get_weather(city, country, api_key, response) ==
    CASE response.kind \in {"timeout", "connection_error", "http_error",
                            "not_json_requests_error"} ->
            \* except requests.exceptions.RequestException
            [status |-> "returned", result |-> JNull,
             errors |-> <<"weather_fetch_error">>, nrequests |-> 1]
      [] response.kind = "not_json_stdlib_error" ->
            \* except json.JSONDecodeError
            [status |-> "returned", result |-> JNull,
             errors |-> <<"weather_decode_error">>, nrequests |-> 1]
      [] response.kind = "json" ->
            [status |-> "returned", result |-> response.data,
             errors |-> << >>, nrequests |-> 1]

\* the subscripts of tab_weather, in the order of lines 1004-1023
RequiredWeatherPaths ==
    <<"main.temp", "main.feels_like", "weather.0.description", "main.humidity",
      "wind.speed", "main.pressure", "weather.0.main", "clouds.all",
      "sys.sunrise", "sys.sunset", "timezone">>

AllWeatherPaths ==
    {RequiredWeatherPaths[i] : i \in 1..Len(RequiredWeatherPaths)}
    \cup {"wind.deg", "visibility", "coord.lat", "coord.lon", "dt"}

\* d[path]...: the exception a chain of subscripts raises on d, or "none"
SubscriptError(d, paths) ==
    IF d.type # "object" THEN "TypeError"
    ELSE IF \E p \in paths : p \notin d.present THEN "KeyError"
    ELSE "none"

Element(kind, data) == [kind |-> kind, data |-> data]

\* lines 1000-1093: the body of `with tab_weather:`
TabWeather(d, now) ==
    IF ~WeatherTruthy(d)
    THEN [status |-> "none",
          ui |-> <<Element("weather_header", << >>), Element("weather_warning", << >>)>>]
    ELSE IF SubscriptError(d, AllWeatherPaths \ {"wind.deg", "visibility", "coord.lat", "coord.lon", "dt"}) # "none"
    THEN [status |-> SubscriptError(d, AllWeatherPaths \ {"wind.deg", "visibility", "coord.lat", "coord.lon", "dt"}),
          ui |-> <<Element("weather_header", << >>)>>]
    ELSE LET visibility == IF "visibility" \in d.present THEN Num(d.val.visibility)
                           ELSE NotAvailable
             times == get_day_night_and_local_time(
                          [current_timestamp |-> now,
                           sunrise_timestamp |-> d.val.sunrise,
                           sunset_timestamp |-> d.val.sunset,
                           timezone_offset_seconds |-> d.val.timezone])
             weather_suggestions == get_innovative_weather_suggestions(
                          [temp |-> d.val.temp, description |-> d.val.description,
                           wind_speed |-> d.val.wind_speed, humidity |-> d.val.humidity,
                           is_day |-> times.day_night_status = Daytime,
                           pressure |-> Num(d.val.pressure), visibility |-> visibility])
         IN  IF weather_suggestions.status # "returned"
             THEN [status |-> weather_suggestions.status,
                   ui |-> <<Element("weather_header", << >>)>>]
             ELSE [status |-> "none",
                   ui |-> <<Element("weather_header", << >>),
                            Element("weather_panel", weather_suggestions.result)>>]

\* lines 1096-1114: the body of `with tab_news:`
TabNews(articles) ==
    IF articles # << >>
    THEN <<Element("news_header", << >>), Element("news_articles", articles)>>
    ELSE <<Element("news_header", << >>), Element("news_info", << >>)>>

\* lines 1117-1230: the six tabs of simulated data, which read no fetched data
TabsLocal ==
    <<Element("transport", << >>), Element("events", << >>), Element("env_health", << >>),
      Element("nearby", << >>), Element("community", << >>), Element("sustainability", << >>)>>

TabInsightsUnguarded(d) ==
    IF SubscriptError(d, {"weather.0.description"}) # "none"
    THEN [status |-> SubscriptError(d, {"weather.0.description"}),
          ui |-> <<Element("insights_header", << >>)>>]
    ELSE [status |-> "none",
          ui |-> <<Element("insights_header", << >>), Element("insights", << >>)>>]

\* lines 1232-1279: weather_data['weather'][0]['description'] if weather_data else "unknown"
TabInsights(d) ==
    IF WeatherTruthy(d) /\ SubscriptError(d, {"weather.0.description"}) # "none"
    THEN [status |-> SubscriptError(d, {"weather.0.description"}),
          ui |-> <<Element("insights_header", << >>)>>]
    ELSE [status |-> "none",
          ui |-> <<Element("insights_header", << >>), Element("insights", << >>)>>]

\* lines 1281-1305: weather_data['coord']['lat'] if weather_data else -29.8587
TabMap(d) ==
    IF WeatherTruthy(d) /\ SubscriptError(d, {"coord.lat", "coord.lon"}) # "none"
    THEN [status |-> SubscriptError(d, {"coord.lat", "coord.lon"}),
          ui |-> <<Element("map_header", << >>)>>]
    ELSE [status |-> "none",
          ui |-> <<Element("map_header", << >>), Element("map", << >>)>>]

-----------------------------------------------------------------------------
(* One script run through the main content display (lines 976-1323), for   *)
(* a session in which insights_triggered is set and city and country are   *)
(* not empty.  An exception that no handler catches ends the script run.   *)

MildValues ==
    [temp |-> 20, description |-> <<"c","l","e","a","r"," ","s","k","y">>,
     wind_speed |-> 5, humidity |-> 60, pressure |-> 1012, visibility |-> 10000,
     sunrise |-> 21600, sunset |-> 66600, timezone |-> 7200]

HotValues ==
    [temp |-> 32, description |-> <<"l","i","g","h","t"," ","r","a","i","n">>,
     wind_speed |-> 15, humidity |-> 80, pressure |-> 995, visibility |-> 3000,
     sunrise |-> 21600, sunset |-> 66600, timezone |-> 7200]

WeatherBodies ==
    { WObject(AllWeatherPaths, MildValues), WObject(AllWeatherPaths, HotValues),
      WObject({}, MildValues), JList(Articles(1)), JNull }
    \cup { WObject(AllWeatherPaths \ {p}, MildValues) : p \in AllWeatherPaths }
    \cup { WObject({p \in AllWeatherPaths : p \notin {"main.temp", "main.feels_like",
                                                      "main.humidity", "main.pressure"}},
                   MildValues) }

WeatherResponses ==
    { [kind |-> k, data |-> JNull] :
        k \in {"timeout", "connection_error", "http_error",
               "not_json_requests_error", "not_json_stdlib_error"} }
    \cup { [kind |-> "json", data |-> d] : d \in WeatherBodies }

RunNewsResponses ==
    { [kind |-> "timeout", data |-> JNull],
      [kind |-> "json", data |-> JList(Articles(1))] }
    \cup { [kind |-> "json",
            data |-> JObject(Append(OkMembers, [k |-> "articles", v |-> JList(Articles(n))]))] :
             n \in {0, 3} }

WeatherKeys == { << >>, PLACEHOLDER_WEATHER_KEY, OPENWEATHER_API_KEY }

RunInputs ==
    [city : { <<"D","u","r","b","a","n">> },
     country : { <<"S","o","u","t","h"," ","A","f","r","i","c","a">>, <<"Z","A">> },
     query : NewsQueries,
     news_key : NewsKeys,
     weather_key : WeatherKeys,
     now : {50000},
     weather_response : WeatherResponses,
     news_response : RunNewsResponses]

InitRun ==
    /\ runIn \in RunInputs
    /\ pc = "check_keys"
    /\ weather_data = JNull
    /\ news_articles = << >>
    /\ ui = << >>
    /\ calls = << >>
    /\ NoSession
    /\ advIn = NoCall
    /\ advOut = NoCall
    /\ timeIn = NoCall
    /\ timeOut = NoCall
    /\ newsIn = NoCall
    /\ newsOut = NoCall

otherVars == <<advIn, advOut, timeIn, timeOut, newsIn, newsOut, sessionVars>>

\* st.error / st.warning elements for the messages of a fetch
Messages(kind, msgs) == [i \in 1..Len(msgs) |-> Element(kind, <<msgs[i]>>)]

\* the traceback the framework shows for an uncaught exception
Uncaught(exception) == <<Element("exception", <<exception>>)>>

\* lines 981-984: the placeholder test before any fetch
CheckKeys ==
    /\ pc = "check_keys"
    /\ IF runIn.news_key = PLACEHOLDER_NEWS_KEY \/ runIn.weather_key = PLACEHOLDER_WEATHER_KEY
       THEN /\ ui' = Append(ui, Element("st.error", <<"keys_not_configured">>))
            /\ pc' = "footer"
       ELSE /\ ui' = Append(ui, Element("subheader", << >>))
            /\ pc' = "fetch_weather"
    /\ UNCHANGED <<runIn, weather_data, news_articles, calls, otherVars>>

\* line 987
FetchWeather ==
    /\ pc = "fetch_weather"
    /\ LET out == get_weather(runIn.city, runIn.country, runIn.weather_key,
                              runIn.weather_response)
       IN  /\ weather_data' = out.result
           /\ ui' = ui \o Messages("st.error", out.errors)
           /\ calls' = Append(calls, [fn |-> "get_weather",
                                      args |-> <<runIn.city, runIn.country, runIn.weather_key>>,
                                      nrequests |-> out.nrequests])
    /\ pc' = "fetch_news"
    /\ UNCHANGED <<runIn, news_articles, otherVars>>

\* line 988
FetchNews ==
    /\ pc = "fetch_news"
    /\ LET out == get_news(runIn.query, runIn.country, runIn.news_key, runIn.news_response)
       IN  /\ news_articles' = out.result
           /\ calls' = Append(calls, [fn |-> "get_news",
                                      args |-> <<runIn.query, runIn.country, runIn.news_key>>,
                                      nrequests |-> Len(out.requests)])
           /\ IF out.status = "returned"
              THEN /\ ui' = ui \o Messages("st.error", out.errors)
                               \o Messages("st.warning",
                                    [i \in 1..Len(out.warnings) |-> out.warnings[i].kind])
                   /\ pc' = "create_tabs"
              ELSE /\ ui' = ui \o Uncaught(out.status)
                   /\ pc' = "crashed"
    /\ UNCHANGED <<runIn, weather_data, otherVars>>

\* lines 989-997: the simulated look-ups and st.tabs
CreateTabs ==
    /\ pc = "create_tabs"
    /\ pc' = "tab_weather"
    /\ UNCHANGED <<runIn, weather_data, news_articles, ui, calls, otherVars>>

\* the elements of a tab body, then the next tab, or the end of the run
\* when the body raised
TabStep(out, next) ==
    /\ IF out.status = "none"
       THEN /\ ui' = ui \o out.ui
            /\ pc' = next
       ELSE /\ ui' = ui \o out.ui \o Uncaught(out.status)
            /\ pc' = "crashed"
    /\ UNCHANGED <<runIn, weather_data, news_articles, calls, otherVars>>

RenderWeatherTab ==
    /\ pc = "tab_weather"
    /\ TabStep(TabWeather(weather_data, runIn.now), "tab_news")

RenderNewsTab ==
    /\ pc = "tab_news"
    /\ TabStep([status |-> "none", ui |-> TabNews(news_articles)], "tabs_local")

RenderLocalTabs ==
    /\ pc = "tabs_local"
    /\ TabStep([status |-> "none", ui |-> TabsLocal], "tab_insights")

RenderInsightsTab ==
    /\ pc = "tab_insights"
    /\ TabStep(TabInsights(weather_data), "tab_map")

RenderMapTab ==
    /\ pc = "tab_map"
    /\ TabStep(TabMap(weather_data), "tab_future_ideas")

\* lines 1308-1323
RenderFutureIdeasTab ==
    /\ pc = "tab_future_ideas"
    /\ TabStep([status |-> "none", ui |-> <<Element("future_ideas", << >>)>>], "footer")

\* lines 1333-1336
RenderFooter ==
    /\ pc = "footer"
    /\ TabStep([status |-> "none", ui |-> <<Element("footer", << >>)>>], "done")

NextRun ==
    \/ CheckKeys
    \/ FetchWeather
    \/ FetchNews
    \/ CreateTabs
    \/ RenderWeatherTab
    \/ RenderNewsTab
    \/ RenderLocalTabs
    \/ RenderInsightsTab
    \/ RenderMapTab
    \/ RenderFutureIdeasTab
    \/ RenderFooter

SpecRun == InitRun /\ [][NextRun]_vars

-----------------------------------------------------------------------------
(* Properties of the script run  (specification SpecRun)                   *)

HasElement(kind) == \E i \in 1..Len(ui) : ui[i].kind = kind

HasMessage(kind, msg) == \E i \in 1..Len(ui) : ui[i] = Element(kind, <<msg>>)

WeatherCalled == Len(calls) >= 1 /\ calls[1].fn = "get_weather"

\* get_weather was called and returned the failure value None
WeatherReturnedFailure == WeatherCalled /\ weather_data = JNull

\* the get_news call of this run ends in an exception
NewsRaises ==
    get_news(runIn.query, runIn.country, runIn.news_key, runIn.news_response).status
        # "returned"

WeatherProviderError == runIn.weather_response.kind # "json"

\* C19: a get_weather call issues exactly one provider request; on timeout,
\* connection error, non-2xx status or unparsable body it reports the error
\* with st.error and returns None, and tab_weather then renders the
\* explanatory warning and no weather panel, without raising.
C19_WeatherFailureValue ==
    /\ \A i \in 1..Len(calls) : calls[i].fn = "get_weather" => calls[i].nrequests = 1
    /\ (WeatherCalled /\ WeatherProviderError) =>
          /\ weather_data = JNull
          /\ HasMessage("st.error", "weather_fetch_error")
             \/ HasMessage("st.error", "weather_decode_error")
          /\ HasElement("weather_header") =>
                /\ HasElement("weather_warning")
                /\ ~HasElement("weather_panel")
                /\ ~HasElement("exception")

C19_Witness ==
    /\ pc = "done"
    /\ runIn.weather_response.kind = "http_error"
    /\ Len(calls) = 2
    /\ calls[1].nrequests = 1
    /\ HasMessage("st.error", "weather_fetch_error")
    /\ HasElement("weather_warning")
    /\ ~HasElement("weather_panel")

\* the body was parsed to an object that lacks a field tab_weather, the
\* insights tab or the map tab subscripts
WeatherBodyIncomplete ==
    /\ runIn.weather_response.kind = "json"
    /\ runIn.weather_response.data.type = "object"
    /\ \E p \in AllWeatherPaths \ {"wind.deg", "visibility", "dt"} :
          p \notin runIn.weather_response.data.present

\* C20: a parsed weather response that lacks a required field is treated as
\* a weather failure: tab_weather renders the warning and no panel, no
\* exception is raised while consuming it, and the run completes.
C20_IncompleteIsFailure ==
    (WeatherCalled /\ WeatherBodyIncomplete /\ ~NewsRaises) =>
        /\ pc # "crashed"
        /\ ~HasElement("exception")
        /\ HasElement("weather_header") =>
              (HasElement("weather_warning") /\ ~HasElement("weather_panel"))

\* a key that is missing (empty) or still the placeholder
NewsKeyUnconfigured == runIn.news_key = << >> \/ runIn.news_key = PLACEHOLDER_NEWS_KEY

WeatherKeyUnconfigured ==
    runIn.weather_key = << >> \/ runIn.weather_key = PLACEHOLDER_WEATHER_KEY

CalledFn(fn) == \E i \in 1..Len(calls) : calls[i].fn = fn

\* C21: when exactly one of the two keys is missing or a placeholder, the
\* other provider's fetch is still made and its tab rendered: an unconfigured
\* news key does not stop the weather fetch, an unconfigured weather key does
\* not stop the news fetch.
C21_UnconfiguredIsLocal ==
    pc = "done" =>
        /\ (NewsKeyUnconfigured /\ ~WeatherKeyUnconfigured) =>
              (CalledFn("get_weather") /\ HasElement("weather_header"))
        /\ (WeatherKeyUnconfigured /\ ~NewsKeyUnconfigured) =>
              (CalledFn("get_news") /\ HasElement("news_header"))

\* C22: no provider request is issued with an empty or placeholder key, for
\* the weather provider as for the news provider: a call made with such a
\* key sends nothing and reports the key as not configured.
C22_NoRequestWithoutKey ==
    \A i \in 1..Len(calls) :
        (calls[i].args[3] = << >>
         \/ calls[i].args[3] \in {PLACEHOLDER_NEWS_KEY, PLACEHOLDER_WEATHER_KEY}) =>
            /\ calls[i].nrequests = 0
            /\ HasMessage("st.error", "unconfigured")

-----------------------------------------------------------------------------
(* Rule order of get_innovative_weather_suggestions  (specification Spec)  *)

\* `kw in description.lower()` for the arguments of the call
Mentions(kw) == Contains(Lower(advIn.description), kw)

\* the condition rule that the priority order selects for the description
SelectedCondition ==
    IF Mentions(KwRain) \/ Mentions(KwDrizzle) THEN "rain"
    ELSE IF Mentions(KwSnow) THEN "snow"
    ELSE IF Mentions(KwFog) \/ Mentions(KwMist) \/ Mentions(KwHaze) THEN "fog"
    ELSE IF Mentions(KwClear) THEN "clear"
    ELSE IF Mentions(KwCloud) THEN "cloud"
    ELSE "none"

LowVisibility == IsNumber(advIn.visibility) /\ advIn.visibility.val < 5000

StrongWind == advIn.wind_speed > 10

\* the text of the last applicable rule among condition < wind < visibility
CommuteExpected ==
    IF LowVisibility THEN <<CommuteVisibility>>
    ELSE IF StrongWind THEN <<CommuteWind>>
    ELSE IF SelectedCondition = "rain" THEN <<CommuteRain>>
    ELSE IF SelectedCondition = "snow" THEN <<CommuteSnow>>
    ELSE IF SelectedCondition = "fog" THEN <<CommuteFog>>
    ELSE << >>

\* C23: Commute Ready holds the text of the last applicable rule in the
\* order condition rule, wind rule, visibility rule: the reduced-visibility
\* text when visibility is a number < 5000, else the wind text when
\* wind_speed > 10, else the text of the rain, snow or fog rule, and the slot
\* is absent when none applies.  Stated of the function's dictionary when
\* the call ends and of the mapping it returns.
C23_CommuteLastRule ==
    /\ Called => GetItem(advOut.suggestions, CommuteReady) = CommuteExpected
    /\ Returned =>
          IF CommuteExpected = << >>
          THEN ~HasKey(advOut.result, CommuteReady)
          ELSE /\ HasKey(advOut.result, CommuteReady)
               /\ GetItem(advOut.result, CommuteReady) = CommuteExpected

\* rain, strong wind and low visibility together: the visibility text wins
C23_Witness ==
    /\ Returned
    /\ SelectedCondition = "rain"
    /\ StrongWind
    /\ LowVisibility
    /\ GetItem(advOut.result, CommuteReady) = <<CommuteVisibility>>

WindEffectsExact(d) ==
    IF StrongWind
    THEN /\ HasKey(d, WindAdvisory)
         /\ GetItem(d, WindAdvisory) = <<WindAdvisoryText>>
         /\ HasFragment(d, DressCode, DressWind)
         /\ Head(GetItem(d, ActivityIdea)) = ActivityWind
         /\ \A i \in 2..Len(GetItem(d, ActivityIdea)) :
               GetItem(d, ActivityIdea)[i] = ActivityLowPressure
    ELSE /\ HasKey(d, WindAdvisory) => GetItem(d, WindAdvisory) = << >>
         /\ ~HasFragment(d, DressCode, DressWind)
         /\ ~HasFragment(d, ActivityIdea, ActivityWind)
         /\ ~HasFragment(d, CommuteReady, CommuteWind)

\* C24: the wind rule fires exactly when wind_speed > 10 (10 itself does
\* not fire it): the Wind Advisory is present iff wind_speed > 10, and when
\* it fires the windproof fragment is in Dress Code and Activity Idea starts
\* with the wind text, every Activity text of the temperature and condition
\* rules being discarded (only the later low-pressure fragment may follow).
C24_WindStrict ==
    /\ Called => WindEffectsExact(advOut.suggestions)
    /\ Returned => WindEffectsExact(advOut.result)

C24_Witness ==
    /\ Returned
    /\ advIn.wind_speed = 11
    /\ SelectedCondition = "snow"
    /\ GetItem(advOut.result, ActivityIdea) = <<ActivityWind>>
    /\ Last(GetItem(advOut.result, DressCode)) = DressWind

NeutralPressures == {p \in Pressures \ {NotAvailable} : 1000 <= p.val /\ p.val <= 1020}

NeutralVisibilities == {v \in Visibilities \ {NotAvailable} : v.val >= 5000}

\* C25: a pressure that is not a number leaves the call equal, in outcome
\* and in result, to the call with the same other arguments and a pressure
\* in 1000..1020; a visibility that is not a number leaves it equal to the
\* call with a visibility >= 5000.  No error comes from the comparison.
C25_NonNumericSkipped ==
    Called =>
        /\ advIn.pressure = NotAvailable =>
              \A p \in NeutralPressures :
                 advOut = get_innovative_weather_suggestions([advIn EXCEPT !.pressure = p])
        /\ advIn.visibility = NotAvailable =>
              \A v \in NeutralVisibilities :
                 advOut = get_innovative_weather_suggestions([advIn EXCEPT !.visibility = v])

C25_Witness ==
    /\ Returned
    /\ advIn.pressure = NotAvailable
    /\ advIn.visibility = NotAvailable
    /\ HasKey(advOut.result, HealthTip)
    /\ ~HasFragment(advOut.result, HealthTip, HealthLowPressure)
    /\ ~HasKey(advOut.result, CommuteReady)

\* the Mood Boost text of the condition rule sel
MoodOf(sel) ==
    IF sel = "rain" THEN <<MoodRain>>
    ELSE IF sel = "snow" THEN <<MoodSnow>>
    ELSE IF sel = "fog" THEN <<MoodFog>>
    ELSE IF sel = "cloud" THEN <<MoodCloud>>
    ELSE << >>

Filled(d, k) == HasKey(d, k) /\ GetItem(d, k) # << >>

\* the dictionary d carries the effects of condition rule sel and of no other
ConditionEffectsExact(d, sel) ==
    /\ HasFragment(d, DressCode, DressRain) <=> sel = "rain"
    /\ Filled(d, GreenThumb) <=> sel = "rain"
    /\ HasFragment(d, DressCode, DressSnow) <=> sel = "snow"
    /\ HasFragment(d, EnergySavvy, EnergyCloud) <=> sel = "cloud"
    /\ Filled(d, SunSafety) <=> (sel = "clear" /\ advIn.is_day)
    /\ Filled(d, MoodBoost) <=> sel \in {"rain", "snow", "fog", "cloud"}
    /\ Filled(d, MoodBoost) => GetItem(d, MoodBoost) = MoodOf(sel)

\* C26: at most one condition rule fires per call, the first match in the
\* order rain/drizzle, snow, fog/mist/haze, clear, cloud on the lower-cased
\* description: the effects of that rule are there and those of every other
\* rule are not ("Rain and snow" gets the rain effects only, "Clear, few
\* clouds" the clear effects only), and Sun Safety is present only when the
\* description has "clear", none of the higher keywords, and is_day.
C26_OneConditionRule ==
    Called =>
        LET sel == SelectedCondition IN
        /\ ConditionEffectsExact(advOut.suggestions, sel)
        /\ Returned => ConditionEffectsExact(advOut.result, sel)

C26_Witness ==
    /\ Returned
    /\ Mentions(KwRain)
    /\ Mentions(KwSnow)
    /\ GetItem(advOut.result, MoodBoost) = <<MoodRain>>
    /\ ~HasFragment(advOut.result, DressCode, DressSnow)

-----------------------------------------------------------------------------
(* One browser session: st.session_state, the st.cache_data store and the  *)
(* script runs that user events, st.rerun() and the auto-refresh cause.    *)
(* A script run takes no time; time passes between runs and in the         *)
(* time.sleep(60) of the auto-refresh.  Both keys are the ones the source  *)
(* sets; the news search term stays empty.                                 *)

\* @st.cache_data(ttl=600) on get_weather
WEATHER_TTL == 600

\* @st.cache_data(ttl=3600) on get_city_country_from_coords
GEO_TTL == 3600

\* @st.cache_data(ttl=300) on get_news
NEWS_TTL == 300

\* time.sleep(60) of the auto-refresh
REFRESH_SLEEP == 60

MaxClock == 600

MaxGeoCalls == 2

CachedFunctions == {"get_weather", "get_news", "get_city_country_from_coords"}

TtlOfSwapped(fn) ==
    CASE fn = "get_weather" -> NEWS_TTL
      [] fn = "get_news" -> WEATHER_TTL
      [] fn = "get_city_country_from_coords" -> GEO_TTL

TtlOf(fn) ==
    CASE fn = "get_weather" -> WEATHER_TTL
      [] fn = "get_news" -> NEWS_TTL
      [] fn = "get_city_country_from_coords" -> GEO_TTL

\* the store after st.cache_data.clear(), and of a new session
EmptyCache == [fn \in CachedFunctions |-> {}]

\* an entry of fn for args that has not outlived the ttl at time now
LiveEntries(c, fn, args, now) ==
    {e \in c[fn] : e.args = args /\ now < e.at + TtlOf(fn)}

CacheStoreReturnsOnly(c, fn, args, now, value) ==
    IF fn = "get_weather" /\ ~WeatherTruthy(value) THEN c
    ELSE [c EXCEPT ![fn] = {e \in @ : e.args # args}
                            \cup {[args |-> args, at |-> now, value |-> value]}]

\* the decorator keeps whatever the function returned, None and [] included
CacheStore(c, fn, args, now, value) ==
    [c EXCEPT ![fn] = {e \in @ : e.args # args}
                        \cup {[args |-> args, at |-> now, value |-> value]}]

\* the record of requests, for the properties: a hit changes nothing, a
\* request that returned is recorded with its time and result, a request
\* that raised leaves no entry
HistAfter(h, fn, args, now, hit, status, value) ==
    IF hit THEN h
    ELSE IF status = "returned"
    THEN [h EXCEPT ![fn] = {e \in @ : e.args # args}
                             \cup {[args |-> args, at |-> now, value |-> value]}]
    ELSE [h EXCEPT ![fn] = {e \in @ : e.args # args}]

\* entries that outlived their ttl are dropped (they answer no call)
Expire(c, now) == [fn \in CachedFunctions |-> {e \in c[fn] : now < e.at + TtlOf(fn)}]

\* A call of a function decorated with st.cache_data: a live entry answers
\* it; otherwise the function body runs (fresh is its outcome), and what it
\* returns is stored.  An exception is stored nowhere.
CachedCall(c, h, fn, args, now, fresh) ==
    LET live == LiveEntries(c, fn, args, now) IN
    IF live # {}
    THEN LET e == CHOOSE x \in live : TRUE IN
         [cache |-> c, hist |-> HistAfter(h, fn, args, now, TRUE, "returned", e.value),
          called |-> TRUE, args |-> args, requests |-> 0,
          status |-> "returned", value |-> e.value]
    ELSE [cache |-> IF fresh.status = "returned"
                    THEN CacheStore(c, fn, args, now, fresh.result) ELSE c,
          hist |-> HistAfter(h, fn, args, now, FALSE, fresh.status, fresh.result),
          called |-> TRUE, args |-> args, requests |-> fresh.nrequests,
          status |-> fresh.status, value |-> fresh.result]

NotCalled == [called |-> FALSE]

SIMULATED_LAT == <<"-","2","9",".","8","5","8","7">>

SIMULATED_LON == <<"3","1",".","0","2","1","8">>

Durban == <<"D","u","r","b","a","n">>

GeoEntry(name, country) == [name |-> name, country |-> country]

\* answers of the reverse geocoder: transport and status errors, a body that
\* is not JSON, a JSON list of places, a JSON object
GeoResponses ==
    { [kind |-> k, shape |-> "none", entries |-> << >>] :
        k \in {"timeout", "http_error", "not_json_requests_error", "not_json_stdlib_error"} }
    \cup { [kind |-> "json", shape |-> "list", entries |-> e] :
            e \in { << >>,
                    <<GeoEntry(Durban, <<"Z","A">>)>> } }
    \cup { [kind |-> "json", shape |-> "object", entries |-> << >>] }

NoPlace == [city |-> PyNone, country |-> PyNone]

\* lines 105-128.  Only requests.exceptions.RequestException is caught:
\* json.JSONDecodeError from response.json() and the KeyError of data[0] on
\* a JSON object leave the function.
get_city_country_from_coords(lat, lon, api_key, response) ==
    CASE response.kind \in {"timeout", "http_error", "not_json_requests_error"} ->
            [status |-> "returned", result |-> NoPlace, nrequests |-> 1]
      [] response.kind = "not_json_stdlib_error" ->
            [status |-> "JSONDecodeError", result |-> NoPlace, nrequests |-> 1]
      [] response.kind = "json" /\ response.shape = "object" ->
            [status |-> "KeyError", result |-> NoPlace, nrequests |-> 1]
      [] response.kind = "json" /\ response.shape = "list" ->
            IF response.entries # << >>
            THEN [status |-> "returned",
                  result |-> [city |-> response.entries[1].name,
                              country |-> response.entries[1].country],
                  nrequests |-> 1]
            ELSE [status |-> "returned", result |-> NoPlace, nrequests |-> 1]

\* lines 56-72: the session state of a new session
InitialSessionState ==
    [city_input |-> << >>, country_input |-> << >>, news_query_term |-> << >>,
     geolocation_attempted |-> FALSE, initial_location_set |-> FALSE,
     insights_triggered |-> FALSE, geolocation_detected |-> FALSE]

NoEvent == [kind |-> "none", city |-> << >>, country |-> << >>]

\* the fetches of the run before: when it ran and with which arguments
NoFetches == [at |-> 0, weather |-> << >>, news |-> << >>]

\* The script run in progress, or the last one: pc is the block the run is
\* at ("idle" between runs); outcome is how the last run ended: "done",
\* "sleeping" in the auto-refresh, "rerun" by st.rerun(), or the exception.
\* Between runs only outcome, sidebar and prev are kept.
NoRunYet ==
    [pc |-> "idle", outcome |-> "none", ev |-> NoEvent,
     simulated |-> FALSE, detected |-> NoPlace, sidebar |-> FALSE, cleared |-> FALSE,
     weather |-> NotCalled, news |-> NotCalled, prev |-> NoFetches]

\* lines 865-888, on session state s and cache c at time now.  The table is
\* asked for detected_country_iso.upper().
simulate_geolocation_and_update_state(s, c, h, now, api_key, response) ==
    LET g == CachedCall(c, h, "get_city_country_from_coords",
                        <<SIMULATED_LAT, SIMULATED_LON, api_key>>, now,
                        get_city_country_from_coords(SIMULATED_LAT, SIMULATED_LON,
                                                     api_key, response))
    IN  IF g.status # "returned"
        THEN [s |-> s, cache |-> g.cache, hist |-> g.hist,
              outcome |-> g.status, detected |-> NoPlace]
        ELSE IF ~Falsy(g.value.city) /\ ~Falsy(g.value.country)
        THEN [s |-> [s EXCEPT !.city_input = g.value.city,
                              !.country_input =
                                  IsoToFullCountryNameGet(Upper(g.value.country),
                                                          g.value.country),
                              !.insights_triggered = TRUE,
                              !.geolocation_detected = TRUE],
              cache |-> g.cache, hist |-> g.hist,
              outcome |-> "rerun", detected |-> g.value]
        ELSE [s |-> [s EXCEPT !.geolocation_detected = FALSE],
              cache |-> g.cache, hist |-> g.hist,
              outcome |-> "running", detected |-> NoPlace]

\* what the user types in the sidebar
ManualLocations ==
    { [city |-> <<"P","a","r","i","s">>, country |-> <<"F","r","a","n","c","e">>] }

SessionWeatherResponses ==
    { [kind |-> "timeout", data |-> JNull],
      [kind |-> "json", data |-> WObject(AllWeatherPaths, MildValues)] }

SessionNewsResponses ==
    { [kind |-> "timeout", data |-> JNull],
      [kind |-> "json", data |-> JList(Articles(1))],
      [kind |-> "json",
       data |-> JObject(Append(OkMembers, [k |-> "articles", v |-> JList(Articles(3))]))] }

\* the user's idle time between two events
IdleSteps == {NEWS_TTL}

\* time.time() at session time t
WallClock(t) == 50000 + t

InitSession ==
    /\ session_state = InitialSessionState
    /\ auto_refresh = FALSE
    /\ cache = EmptyCache
    /\ hist = EmptyCache
    /\ clock = 0
    /\ run = NoRunYet
    /\ geo_calls = 0
    /\ runIn = NoCall
    /\ pc = "none"
    /\ weather_data = NoCall
    /\ news_articles = << >>
    /\ ui = << >>
    /\ calls = << >>
    /\ advIn = NoCall
    /\ advOut = NoCall
    /\ timeIn = NoCall
    /\ timeOut = NoCall
    /\ newsIn = NoCall
    /\ newsOut = NoCall

plainVars == <<advIn, advOut, timeIn, timeOut, newsIn, newsOut,
               runIn, pc, weather_data, news_articles, ui, calls>>

\* the record of requests forgets what no ttl of the source can still cover
HistExpire(h, now) ==
    [fn \in CachedFunctions |->
        {e \in h[fn] : now < e.at + (CASE fn = "get_weather" -> WEATHER_TTL
                                       [] fn = "get_news" -> NEWS_TTL
                                       [] OTHER -> GEO_TTL)}]

\* what the sidebar makes of the session state for the event ev
AfterSidebar(s, ev) ==
    [s EXCEPT !.city_input = IF ev.kind = "edit" THEN ev.city ELSE @,
              !.country_input = IF ev.kind = "edit" THEN ev.country ELSE @,
              !.insights_triggered = IF ev.kind = "click" THEN TRUE ELSE @,
              !.geolocation_detected = IF ev.kind = "click" THEN TRUE ELSE @]

\* lines 976-981: the tests before the fetches
Fetches(s) ==
    /\ s.insights_triggered
    /\ ~Falsy(s.city_input)
    /\ ~Falsy(s.country_input)
    /\ NEWS_API_KEY # PLACEHOLDER_NEWS_KEY
    /\ OPENWEATHER_API_KEY # PLACEHOLDER_WEATHER_KEY

\* lines 940-985 in a run r, on the cache c and the record of requests h:
\* the text inputs hand back what the user typed, or the session's value;
\* the button sets the flags and clears the cache; the checkbox keeps its
\* state unless the user toggles it; then the tests that open the main content
SidebarAndTests(r, ev, c, h) ==
    /\ session_state' = AfterSidebar(session_state, ev)
    /\ cache' = IF ev.kind = "click" THEN EmptyCache ELSE c
    /\ hist' = IF ev.kind = "click" THEN EmptyCache ELSE h
    /\ auto_refresh' = IF ev.kind = "toggle" THEN ~auto_refresh ELSE auto_refresh
    /\ run' = [r EXCEPT !.pc = IF Fetches(AfterSidebar(session_state, ev))
                               THEN "fetch_weather" ELSE "footer",
                        !.sidebar = TRUE, !.ev = NoEvent,
                        !.cleared = (ev.kind = "click")]

\* The script starts at its top, at time now, for the event ev.  When the
\* test of line 903 opens the detection block the run goes there; otherwise
\* it goes through the sidebar to the tests of the main content.
StartRun(ev, now) ==
    /\ run.pc = "idle"
    /\ clock' = now
    /\ IF ~session_state.geolocation_detected /\ ~session_state.initial_location_set
       THEN /\ geo_calls < MaxGeoCalls
            /\ run' = [NoRunYet EXCEPT !.pc = "geolocation", !.outcome = "running",
                                       !.ev = ev, !.prev = run.prev]
            /\ cache' = Expire(cache, now)
            /\ hist' = HistExpire(hist, now)
            /\ UNCHANGED <<session_state, auto_refresh>>
       ELSE SidebarAndTests([NoRunYet EXCEPT !.outcome = "running", !.prev = run.prev],
                            ev, Expire(cache, now), HistExpire(hist, now))
    /\ UNCHANGED geo_calls
    /\ UNCHANGED plainVars

\* the widgets of the sidebar are on the page
SidebarShown == run.sidebar /\ run.outcome # "rerun"

\* the browser opens the page
FirstLoad ==
    /\ run.outcome = "none"
    /\ StartRun(NoEvent, clock)

\* st.rerun() of the detection: the script starts again at once
RerunRequested ==
    /\ run.outcome = "rerun"
    /\ StartRun(NoEvent, clock)

\* lines 1339-1343: time.sleep(60); st.rerun()
AutoRefreshRerun ==
    /\ run.outcome = "sleeping"
    /\ clock + REFRESH_SLEEP <= MaxClock
    /\ StartRun(NoEvent, clock + REFRESH_SLEEP)

EditLocation ==
    /\ SidebarShown
    /\ \E loc \in ManualLocations :
          StartRun([kind |-> "edit", city |-> loc.city, country |-> loc.country], clock)

ClickGetLocalInsights ==
    /\ SidebarShown
    /\ StartRun([NoEvent EXCEPT !.kind = "click"], clock)

ToggleAutoRefresh ==
    /\ SidebarShown
    /\ StartRun([NoEvent EXCEPT !.kind = "toggle"], clock)

\* "Rerun" of the Streamlit menu, also after a run that an exception ended
ManualRerun ==
    /\ run.outcome \notin {"none", "rerun", "running"}
    /\ StartRun(NoEvent, clock)

\* time passes while nothing runs
Idle ==
    /\ run.pc = "idle"
    /\ run.outcome \notin {"none", "rerun", "sleeping"}
    /\ \E d \in IdleSteps :
          /\ clock + d <= MaxClock
          /\ clock' = clock + d
    /\ UNCHANGED <<session_state, auto_refresh, cache, hist, run, geo_calls>>
    /\ UNCHANGED plainVars

\* the run ends here, by st.rerun() or by an exception
EndRun(outcome) ==
    [NoRunYet EXCEPT !.outcome = outcome, !.sidebar = run.sidebar,
                     !.prev = IF run.weather.called
                              THEN [at |-> clock, weather |-> run.weather.args,
                                    news |-> IF run.news.called THEN run.news.args
                                             ELSE << >>]
                              ELSE NoFetches]

\* lines 904-916: the body of the detection block at the top of the script
DetectLocation ==
    /\ run.pc = "geolocation"
    /\ IF OPENWEATHER_API_KEY = PLACEHOLDER_WEATHER_KEY
       THEN /\ session_state' = [session_state EXCEPT !.geolocation_detected = TRUE,
                                                      !.initial_location_set = TRUE]
            /\ run' = [run EXCEPT !.pc = "sidebar"]
            /\ UNCHANGED <<cache, hist, geo_calls>>
       ELSE \E response \in GeoResponses :
               LET sim == simulate_geolocation_and_update_state(
                              session_state, cache, hist, clock,
                              OPENWEATHER_API_KEY, response)
               IN  /\ cache' = sim.cache
                   /\ hist' = sim.hist
                   /\ geo_calls' = geo_calls + 1
                   /\ IF sim.outcome = "running"
                      THEN /\ session_state' =
                                 [sim.s EXCEPT !.initial_location_set = TRUE]
                           /\ run' = [run EXCEPT !.pc = "sidebar", !.simulated = TRUE]
                      ELSE /\ session_state' = sim.s
                           /\ run' = [EndRun(sim.outcome) EXCEPT
                                         !.detected = sim.detected]
    /\ UNCHANGED <<auto_refresh, clock>>
    /\ UNCHANGED plainVars

\* lines 940-985 after the detection block
RenderSidebar ==
    /\ run.pc = "sidebar"
    /\ SidebarAndTests(run, run.ev, cache, hist)
    /\ UNCHANGED <<clock, geo_calls>>
    /\ UNCHANGED plainVars

\* line 987, through the cache
CachedFetchWeather ==
    /\ run.pc = "fetch_weather"
    /\ \E response \in SessionWeatherResponses :
          LET w == CachedCall(cache, hist, "get_weather",
                      <<session_state.city_input, session_state.country_input,
                        OPENWEATHER_API_KEY>>, clock,
                      get_weather(session_state.city_input, session_state.country_input,
                                  OPENWEATHER_API_KEY, response))
          IN  /\ cache' = w.cache
              /\ hist' = w.hist
              /\ run' = [run EXCEPT !.pc = "fetch_news",
                                    !.weather = [called |-> TRUE, args |-> w.args,
                                                 requests |-> w.requests, value |-> w.value]]
    /\ UNCHANGED <<session_state, auto_refresh, clock, geo_calls>>
    /\ UNCHANGED plainVars

\* get_news as the decorator sees it: how it ended, what it returned, and
\* the requests it made
NewsOutcome(query, country_name, api_key, response) ==
    LET out == get_news(query, country_name, api_key, response)
    IN  [status |-> out.status, result |-> out.result, nrequests |-> Len(out.requests)]

\* line 988, through the cache
CachedFetchNews ==
    /\ run.pc = "fetch_news"
    /\ \E response \in SessionNewsResponses :
          LET n == CachedCall(cache, hist, "get_news",
                      <<session_state.news_query_term, session_state.country_input,
                        NEWS_API_KEY>>, clock,
                      NewsOutcome(session_state.news_query_term,
                                  session_state.country_input, NEWS_API_KEY, response))
          IN  /\ cache' = n.cache
              /\ hist' = n.hist
              /\ run' = IF n.status = "returned"
                        THEN [run EXCEPT !.pc = "tabs",
                                         !.news = [called |-> TRUE, args |-> n.args,
                                                   requests |-> n.requests,
                                                   value |-> n.value]]
                        ELSE EndRun(n.status)
    /\ UNCHANGED <<session_state, auto_refresh, clock, geo_calls>>
    /\ UNCHANGED plainVars

\* the first exception of the tab bodies, "none" when all of them render
RenderOutcome(d, now) ==
    LET tab_weather == TabWeather(d, now).status
        tab_intelligent_insights == TabInsights(d).status
    IN  IF tab_weather # "none" THEN tab_weather
        ELSE IF tab_intelligent_insights # "none" THEN tab_intelligent_insights
        ELSE TabMap(d).status

\* lines 995-1323: the tabs
RenderTabs ==
    /\ run.pc = "tabs"
    /\ run' = IF RenderOutcome(run.weather.value, WallClock(clock)) = "none"
              THEN [run EXCEPT !.pc = "footer"]
              ELSE EndRun(RenderOutcome(run.weather.value, WallClock(clock)))
    /\ UNCHANGED <<session_state, auto_refresh, cache, hist, clock, geo_calls>>
    /\ UNCHANGED plainVars

\* lines 1333-1343: the footer, then time.sleep(60) and st.rerun() when the
\* checkbox is ticked (the sleep ends in AutoRefreshRerun)
RenderFooterAndRefresh ==
    /\ run.pc = "footer"
    /\ run' = EndRun(IF auto_refresh THEN "sleeping" ELSE "done")
    /\ UNCHANGED <<session_state, auto_refresh, cache, hist, clock, geo_calls>>
    /\ UNCHANGED plainVars

NextSession ==
    \/ FirstLoad
    \/ RerunRequested
    \/ AutoRefreshRerun
    \/ EditLocation
    \/ ClickGetLocalInsights
    \/ ToggleAutoRefresh
    \/ ManualRerun
    \/ Idle
    \/ DetectLocation
    \/ RenderSidebar
    \/ CachedFetchWeather
    \/ CachedFetchNews
    \/ RenderTabs
    \/ RenderFooterAndRefresh

SpecSession == InitSession /\ [][NextSession]_vars

-----------------------------------------------------------------------------
(* Properties of the session  (specification SpecSession)                  *)

BetweenRuns == run.pc = "idle" /\ run.outcome # "none"

\* C27: simulate_geolocation_and_update_state is called at most once in a
\* session, whether it succeeds or fails, and once the first script run has
\* ended geolocation_detected or initial_location_set is true.
C27_DetectOnce ==
    /\ geo_calls <= 1
    /\ BetweenRuns =>
          (session_state.geolocation_detected \/ session_state.initial_location_set)

\* the name the table of line 53 holds for the country of an ISO code
FullNameOf(code) == IsoToFullCountryNameGet(Lower(code), code)

\* C28: after a successful detection country_input is the full name of the
\* detected ISO code ("ZA" gives "South Africa"); a code that is not in the
\* table is kept as it is.
C28_FullCountryName ==
    (run.pc = "idle" /\ run.outcome = "rerun") =>
        session_state.country_input = FullNameOf(run.detected.country)

WeatherArgs ==
    <<session_state.city_input, session_state.country_input, OPENWEATHER_API_KEY>>

NewsArgs ==
    <<session_state.news_query_term, session_state.country_input, NEWS_API_KEY>>

\* the requests for args that returned less than ttl ago, with no clear since
Recent(fn, args, ttl) == {e \in hist[fn] : e.args = args /\ clock - e.at < ttl}

\* C29, as amended: a get_weather (TTL 600 s) or get_news (TTL 300 s) call
\* whose arguments equal those of an earlier call that asked the provider
\* less than the TTL ago, with no cache clear in between, returns that
\* call's result without a provider request; without such a call (never
\* asked, asked with other arguments, TTL over) it asks the provider; and in
\* a run started by 'Get Local Insights!' both fetches ask the provider.
C29_CachedFetches ==
    [][ /\ run.pc = "fetch_weather" =>
             /\ run'.weather.args = WeatherArgs
             /\ Recent("get_weather", WeatherArgs, WEATHER_TTL) # {} =>
                   /\ run'.weather.requests = 0
                   /\ \A e \in Recent("get_weather", WeatherArgs, WEATHER_TTL) :
                         run'.weather.value = e.value
             /\ Recent("get_weather", WeatherArgs, WEATHER_TTL) = {} =>
                   run'.weather.requests = 1
             /\ run.cleared => run'.weather.requests = 1
        /\ run.pc = "fetch_news" =>
             /\ Recent("get_news", NewsArgs, NEWS_TTL) # {} =>
                   /\ run'.pc = "tabs"
                   /\ run'.news.requests = 0
                   /\ \A e \in Recent("get_news", NewsArgs, NEWS_TTL) :
                         run'.news.value = e.value
             /\ (Recent("get_news", NewsArgs, NEWS_TTL) = {} /\ run'.pc = "tabs") =>
                   run'.news.requests = 1
             /\ (run.cleared /\ run'.pc = "tabs") => run'.news.requests = 1
      ]_vars

\* weather answered from a request made 300 s or more before, in a run that
\* cleared nothing, and news asked again because its 300 s were over
C29_Witness ==
    /\ run.pc = "tabs"
    /\ ~run.cleared
    /\ run.weather.requests = 0
    /\ WeatherTruthy(run.weather.value)
    /\ \E e \in hist["get_weather"] : e.args = run.weather.args /\ clock - e.at >= NEWS_TTL
    /\ run.news.requests = 1

\* C29 as stated, with the call of the script run before as the earlier
\* call: when get_weather (get_news) returned in that run, for the same
\* arguments and less than 600 s (300 s) ago, and this run clears nothing,
\* the call is answered without a provider request.
C29_AnyEarlierCall ==
    [][ /\ (/\ run.pc = "fetch_weather"
            /\ ~run.cleared
            /\ run.prev.weather = WeatherArgs
            /\ clock - run.prev.at < WEATHER_TTL) => run'.weather.requests = 0
        /\ (/\ run.pc = "fetch_news"
            /\ ~run.cleared
            /\ run.prev.news = NewsArgs
            /\ clock - run.prev.at < NEWS_TTL
            /\ run'.pc = "tabs") => run'.news.requests = 0
      ]_vars

\* C30: once get_weather has returned None for (city, country, key), a call
\* with the same arguments less than 600 s after that request, with no cache
\* clear in between, returns None again without a provider request; so a
\* new request for them is made only after the 600 s or after the button.
C30_FailureMemoized ==
    [][ run.pc = "fetch_weather" =>
          \A e \in hist["get_weather"] :
             (e.args = WeatherArgs /\ ~WeatherTruthy(e.value) /\ clock - e.at < WEATHER_TTL) =>
                 /\ run'.weather.requests = 0
                 /\ run'.weather.value = JNull
      ]_vars

\* an auto-refresh rerun gets the failure of an earlier run from the cache
C30_Witness ==
    /\ run.pc = "fetch_news"
    /\ auto_refresh
    /\ ~run.cleared
    /\ run.weather.requests = 0
    /\ run.weather.value = JNull
    /\ \E e \in hist["get_weather"] : e.args = run.weather.args /\ e.at < clock

====
